---- MODULE Spec2Model ----
(***************************************************************************)
(* A model of the daily product-ideas pipeline: the orchestrator of        *)
(* daily_job.py, the scraper's snapshot writer of apify_scraper.py, the    *)
(* tweet categorizer (insight extractor) of categorizer.py and the         *)
(* dashboard of dashboard.py.                                              *)
(*                                                                         *)
(* Text is a sequence of characters, each written as a short string (bq   *)
(* the backquote, sp the space, nl the newline). The interior of a JSON    *)
(* object is one symbol naming the object it denotes: the code inspects it *)
(* only through json.loads.                                                *)
(***************************************************************************)
EXTENDS Integers, Sequences, FiniteSets, TLC

VARIABLES
    \* ---- the analysis harness: one call of the categorizer's API ----
    exRaw,       \* the raw records of the snapshot file handed to the call
    exEntry,     \* "none" | "analyze_tweets" | "analyze_tweets_with_gemini"
    exOutcome,   \* what the LLM provider does when (if) it is called
    exResult,    \* what the call returned
    \* ---- the orchestrator run (daily_job.main) ----
    pc,          \* position of main
    now,         \* the clock, in half days
    tz,          \* offset of the local clock from UTC, in half days
    runs,        \* number of orchestrator invocations so far
    env,         \* the environment variables that are set
    gitInstalled,\* whether the git executable can be run
    scraped,     \* data/scraped/<date>_data.json: date -> file
    analysis,    \* data/analysis/<date>_analysis.json: date -> file
    fetched,     \* the posts fetched by the current run
    llmCalls,    \* provider calls made by the current run
    llmOutcome,  \* what the provider did in the current run
    trace,       \* the stages the current run has run, in order, with results
    exitCode,    \* "none" | "0" | "1": the exit status of main
    \* ---- the function harness: one call of a function on drawn inputs ----
    fnName,      \* "none" or the name of the function called
    fnInput,     \* the arguments of the call
    fnResult,    \* what the call returned
    \* ---- the writers harness ----
    writes,      \* the writes made so far: writer, calendar date, content
    \* ---- the dashboard process and the page of one browser session ----
    current_date,     \* dashboard.py's global current_date
    product_data,     \* dashboard.py's global product_data
    summary_data,     \* dashboard.py's global summary_data
    data_load_error,  \* dashboard.py's global data_load_error
    dark_mode,        \* the value of theme-switch
    selected_date,    \* the value of date-selector
    chosen_by,        \* who set date-selector last: "layout", "callback", "user"
    cards,            \* the children of cards-container
    error_container,  \* the children of error-container
    date_display,     \* the children of date-display
    pending,          \* the callbacks triggered and not yet run
    callback_error,   \* the exception that left the last callback that builds cards
    user_date,        \* the date the user picked last in date-selector
    \* ---- what runs beside them: two invocations of the orchestrator on the
    \* ---- same files, a second browser session on the same dashboard process
    invocations,      \* invocation -> its position and what it holds
    other_selected,   \* the value of date-selector in the second session
    other_pending     \* the second session's callbacks triggered and not yet run

exVars == <<exRaw, exEntry, exOutcome, exResult>>
runVars == <<pc, now, tz, runs, env, gitInstalled, scraped, analysis, fetched,
             llmCalls, llmOutcome, trace, exitCode>>
fnVars == <<fnName, fnInput, fnResult>>
dashVars == <<current_date, product_data, summary_data, data_load_error,
              dark_mode, selected_date, chosen_by, cards, error_container,
              date_display, pending, callback_error, user_date>>
concVars == <<invocations, other_selected, other_pending>>
auxVars == <<fnName, fnInput, fnResult, writes, current_date, product_data,
             summary_data, data_load_error, dark_mode, selected_date, chosen_by,
             cards, error_container, date_display, pending, callback_error,
             user_date>>
vars == <<exRaw, exEntry, exOutcome, exResult, pc, now, tz, runs, env,
          gitInstalled, scraped, analysis, fetched, llmCalls, llmOutcome,
          trace, exitCode, fnName, fnInput, fnResult, writes, current_date,
          product_data, summary_data, data_load_error, dark_mode, selected_date,
          chosen_by, cards, error_container, date_display, pending,
          callback_error, user_date, invocations, other_selected, other_pending>>

(***************************************************************************)
(* Bounds                                                                  *)
(***************************************************************************)
\* longest run of whitespace put around a response
MaxWs == 1
\* orchestrator invocations in one behaviour
MaxRuns == 2
\* last instant of the clock (half days)
MaxTime == 3

(***************************************************************************)
(* Text                                                                    *)
(***************************************************************************)
\* the backquote character
BQ == "bq"

\* the space and the newline
Whitespace == {"sp", "nl"}

Fence == <<BQ, BQ, BQ>>

FenceJson == <<BQ, BQ, BQ, "j", "s", "o", "n">>

\* s[from..], python's s[n:] with from = n + 1
DropFirst(s, n) == IF n >= Len(s) THEN <<>> ELSE SubSeq(s, n + 1, Len(s))

\* python's s[:-n]
DropLast(s, n) == IF n >= Len(s) THEN <<>> ELSE SubSeq(s, 1, Len(s) - n)

StartsWith(s, p) == Len(s) >= Len(p) /\ SubSeq(s, 1, Len(p)) = p

EndsWith(s, p) == Len(s) >= Len(p) /\ SubSeq(s, Len(s) - Len(p) + 1, Len(s)) = p

RECURSIVE LStrip(_)
LStrip(s) == IF s # <<>> /\ Head(s) \in Whitespace THEN LStrip(Tail(s)) ELSE s

RECURSIVE RStrip(_)
RStrip(s) ==
    IF s # <<>> /\ s[Len(s)] \in Whitespace THEN RStrip(DropLast(s, 1)) ELSE s

\* str.strip()
Strip(s) == RStrip(LStrip(s))

(***************************************************************************)
(* Python values                                                           *)
(***************************************************************************)
\* the empty dict {}
EmptyObject == [k \in {} |-> k]

\* dict.get(key, default)
Get(d, key, default) == IF key \in DOMAIN d THEN d[key] ELSE default

\* a JSON array, a JSON object, and JSON values that are neither
Arr(items) == [type |-> "array", items |-> items]

Obj(fields) == [type |-> "object", obj |-> fields]

JsonNull == [type |-> "null"]

JsonNumber == [type |-> "number"]

\* an element of tweet_ids that is itself a list: not usable as a dict key
Unhashable == "[unhashable]"

ZeroUsage == [input_tokens |-> 0, output_tokens |-> 0, total_tokens |-> 0]

(***************************************************************************)
(* The JSON texts of the model.  An object's interior is one symbol; the   *)
(* table gives the object each symbol denotes.                             *)
(***************************************************************************)
CandAXC ==
    Obj([category |-> "Developer Tool", description |-> "d1",
         pain_point |-> "p1", target_audience |-> "Developers",
         urgency_level |-> "High", tweet_ids |-> <<"a", "x", "c">>])

CandXY ==
    Obj([category |-> "Health App", description |-> "d2",
         pain_point |-> "p2", target_audience |-> "Students",
         urgency_level |-> "Low", tweet_ids |-> <<"x", "y">>])

\* no category, no urgency_level; an id listed twice, in reverse batch order
CandCAC == Obj([description |-> "d3", tweet_ids |-> <<"c", "a", "c">>])

\* no tweet_ids at all
CandNoIds == Obj([category |-> "Educational Platform", description |-> "d4"])

\* an id that is a nested list
CandUnhashable ==
    Obj([category |-> "E-commerce Solution", tweet_ids |-> <<"a", Unhashable>>])

ObjectSymbols ==
    {"reqs:[]", "reqs:[axc]", "reqs:[xy]", "reqs:[cac,axc,xy]", "reqs:[noids,axc]",
     "reqs:[axc,7]", "reqs:[axc,unhashable]", "reqs:null", "other:1"}

ObjectOf(sym) ==
    CASE sym = "reqs:[]" -> [product_requests |-> Arr(<<>>)]
      [] sym = "reqs:[axc]" -> [product_requests |-> Arr(<<CandAXC>>)]
      [] sym = "reqs:[xy]" -> [product_requests |-> Arr(<<CandXY>>)]
      [] sym = "reqs:[cac,axc,xy]" ->
            [product_requests |-> Arr(<<CandCAC, CandAXC, CandXY>>)]
      [] sym = "reqs:[noids,axc]" ->
            [product_requests |-> Arr(<<CandNoIds, CandAXC>>)]
      [] sym = "reqs:[axc,7]" -> [product_requests |-> Arr(<<CandAXC, JsonNumber>>)]
      [] sym = "reqs:[axc,unhashable]" ->
            [product_requests |-> Arr(<<CandAXC, CandUnhashable>>)]
      [] sym = "reqs:null" -> [product_requests |-> JsonNull]
      [] sym = "other:1" -> [other |-> JsonNumber]

\* json.loads on the tokens of a text: the texts that parse are the objects
\* {sym} and {} and the array []
ParseTokens(tokens) ==
    IF Len(tokens) = 3 /\ tokens[1] = "{" /\ tokens[3] = "}"
       /\ tokens[2] \in ObjectSymbols
    THEN [ok |-> TRUE, value |-> ObjectOf(tokens[2])]
    ELSE IF tokens = <<"{", "}">>
    THEN [ok |-> TRUE, value |-> EmptyObject]
    ELSE IF tokens = <<"[", "]">>
    THEN [ok |-> TRUE, value |-> Arr(<<>>)]
    ELSE [ok |-> FALSE, value |-> EmptyObject]

\* json.loads: whitespace between tokens is insignificant
JsonLoads(text) == ParseTokens(SelectSeq(text, LAMBDA c : c \notin Whitespace))

(***************************************************************************)
(* categorizer.py: TweetCategorizer                                        *)
(***************************************************************************)
\* faulty variant: the three counters are added without their weights
TweetDataOfUnweighted(tweet) ==
    [id |-> Get(tweet, "id", ""),
     text |-> Get(tweet, "tweet_text", ""),
     user_handle |-> Get(tweet, "user_handle", ""),
     created_at |-> Get(tweet, "tweet_created_at", ""),
     engagement_score |->
         Get(tweet, "tweet_favorite_count", 0)
         + Get(tweet, "tweet_retweet_count", 0)
         + Get(tweet, "tweet_reply_count", 0),
     url |-> Get(tweet, "tweet_url", "")]

\* load_tweet_data's mapping of one raw record to a TweetData
TweetDataOf(tweet) ==
    [id |-> Get(tweet, "id", ""),
     text |-> Get(tweet, "tweet_text", ""),
     user_handle |-> Get(tweet, "user_handle", ""),
     created_at |-> Get(tweet, "tweet_created_at", ""),
     engagement_score |->
         Get(tweet, "tweet_favorite_count", 0)
         + Get(tweet, "tweet_retweet_count", 0) * 2
         + Get(tweet, "tweet_reply_count", 0) * 3,
     url |-> Get(tweet, "tweet_url", "")]

\* faulty variant: a record without an id is skipped
LoadTweetDataSkipsIncomplete(raw_data) ==
    LET kept == SelectSeq(raw_data, LAMBDA tweet : "id" \in DOMAIN tweet)
    IN  [i \in 1..Len(kept) |-> TweetDataOf(kept[i])]

\* load_tweet_data, the file already read: one TweetData per raw record
LoadTweetData(raw_data) == [i \in 1..Len(raw_data) |-> TweetDataOf(raw_data[i])]

\* faulty variant: the validation stops at the brace check and never parses
ValidateGeminiResponseBracesOnly(response_text) ==
    /\ response_text # <<>>
    /\ Strip(response_text) # <<>>
    /\ StartsWith(response_text, <<"{">>)
    /\ EndsWith(response_text, <<"}">>)

\* _validate_gemini_response
ValidateGeminiResponse(response_text) ==
    IF response_text = <<>> \/ Strip(response_text) = <<>>
    THEN FALSE
    ELSE IF ~(StartsWith(response_text, <<"{">>) /\ EndsWith(response_text, <<"}">>))
    THEN FALSE
    ELSE JsonLoads(response_text).ok

\* line 269: if response_text.startswith("```json"): response_text[7:]
DropJsonFence(t) == IF StartsWith(t, FenceJson) THEN DropFirst(t, 7) ELSE t

\* line 271: if response_text.startswith("```"): response_text[3:]
DropOpeningFence(t) == IF StartsWith(t, Fence) THEN DropFirst(t, 3) ELSE t

\* line 273: if response_text.endswith("```"): response_text[:-3]
DropClosingFence(t) == IF EndsWith(t, Fence) THEN DropLast(t, 3) ELSE t

\* faulty variant: the response is stripped of whitespace but the fence is kept
CleanResponseKeepsFence(text) == Strip(text)

\* analyze_tweets_with_gemini, lines 265-277: strip, drop the code fence, strip
CleanResponse(text) ==
    Strip(DropClosingFence(DropOpeningFence(DropJsonFence(Strip(text)))))

\* faulty variant: the output and the total count are exchanged
TokenUsageSwapped(usage_metadata) ==
    IF usage_metadata.present
    THEN [input_tokens |-> usage_metadata.prompt_token_count,
          output_tokens |-> usage_metadata.total_token_count,
          total_tokens |-> usage_metadata.candidates_token_count]
    ELSE [input_tokens |-> 0, output_tokens |-> 0, total_tokens |-> 0]

\* analyze_tweets_with_gemini, lines 284-299: the token usage of a response
TokenUsage(usage_metadata) ==
    IF usage_metadata.present
    THEN [input_tokens |-> usage_metadata.prompt_token_count,
          output_tokens |-> usage_metadata.candidates_token_count,
          total_tokens |-> usage_metadata.total_token_count]
    ELSE ZeroUsage

\* the index of the last tweet carrying that id
LastWithId(tweets, i) ==
    CHOOSE k \in 1..Len(tweets) :
        /\ tweets[k].id = i
        /\ \A m \in 1..Len(tweets) : tweets[m].id = i => m <= k

\* {tweet.id: tweet for tweet in tweets}: a later tweet replaces an earlier
\* one of the same id
TweetsDict(tweets) ==
    [i \in {tweets[k].id : k \in 1..Len(tweets)} |-> tweets[LastWithId(tweets, i)]]

\* faulty variant: the matched tweet is put behind those of the ids that follow it
AppendMatchReversed(tweet_id, tweets_dict, rest) ==
    IF rest.raised
    THEN rest
    ELSE IF tweet_id \in DOMAIN tweets_dict
    THEN [raised |-> FALSE, tweets |-> rest.tweets \o <<tweets_dict[tweet_id]>>]
    ELSE rest

\* lines 323-326: a listed id that is in the dict contributes its tweet, one
\* that is not is skipped; rest is the outcome for the ids that follow
AppendMatch(tweet_id, tweets_dict, rest) ==
    IF rest.raised
    THEN rest
    ELSE IF tweet_id \in DOMAIN tweets_dict
    THEN [raised |-> FALSE, tweets |-> <<tweets_dict[tweet_id]>> \o rest.tweets]
    ELSE rest

\* the loop over tweet_ids (lines 321-326); a nested list raises TypeError
RECURSIVE MatchTweets(_, _)
MatchTweets(tweet_ids, tweets_dict) ==
    IF tweet_ids = <<>>
    THEN [raised |-> FALSE, tweets |-> <<>>]
    ELSE IF Head(tweet_ids) = Unhashable
    THEN [raised |-> TRUE, tweets |-> <<>>]
    ELSE AppendMatch(Head(tweet_ids), tweets_dict,
                     MatchTweets(Tail(tweet_ids), tweets_dict))

\* lines 334-341: the ProductRequest of a candidate and its matched tweets
MakeProductRequest(obj, matched) ==
    IF matched.raised
    THEN [raised |-> TRUE, request |-> EmptyObject]
    ELSE [raised |-> FALSE,
          request |->
              [category |-> Get(obj, "category", "Unknown"),
               description |-> Get(obj, "description", ""),
               pain_point |-> Get(obj, "pain_point", ""),
               target_audience |-> Get(obj, "target_audience", ""),
               urgency_level |-> Get(obj, "urgency_level", "Medium"),
               tweets |-> matched.tweets]]

\* one iteration of the loop over raw_requests (lines 315-342); an item that
\* is not a dict raises AttributeError at item.get
ReconcileItem(item, tweets) ==
    IF item.type # "object"
    THEN [raised |-> TRUE, request |-> EmptyObject]
    ELSE MakeProductRequest(
             item.obj,
             MatchTweets(Get(item.obj, "tweet_ids", <<>>), TweetsDict(tweets)))

\* faulty variant: a request without matched tweets is not appended
AppendRequestUnlessUnmatched(first, rest) ==
    IF first.raised \/ rest.raised
    THEN [raised |-> TRUE, product_requests |-> <<>>]
    ELSE [raised |-> FALSE,
          product_requests |->
              (IF first.request.tweets = <<>> THEN <<>> ELSE <<first.request>>)
              \o rest.product_requests]

\* faulty variant: an entry that raised is skipped and the others are kept
AppendRequestSkipsFailed(first, rest) ==
    IF rest.raised
    THEN rest
    ELSE IF first.raised
    THEN rest
    ELSE [raised |-> FALSE,
          product_requests |-> <<first.request>> \o rest.product_requests]

\* line 342: product_requests.append(product_request); an exception in any
\* iteration leaves the loop
AppendRequest(first, rest) ==
    IF first.raised \/ rest.raised
    THEN [raised |-> TRUE, product_requests |-> <<>>]
    ELSE [raised |-> FALSE,
          product_requests |-> <<first.request>> \o rest.product_requests]

\* the loop over raw_requests (lines 311-342)
RECURSIVE Reconcile(_, _)
Reconcile(raw_requests, tweets) ==
    IF raw_requests = <<>>
    THEN [raised |-> FALSE, product_requests |-> <<>>]
    ELSE AppendRequest(ReconcileItem(Head(raw_requests), tweets),
                       Reconcile(Tail(raw_requests), tweets))

\* an exception raised inside the try block
Raised == [raised |-> TRUE, product_requests |-> <<>>, token_usage |-> ZeroUsage]

\* a return statement of analyze_tweets_with_gemini
Returned(product_requests, token_usage) ==
    [raised |-> FALSE, product_requests |-> product_requests,
     token_usage |-> token_usage]

\* lines 344-347: the return after the loop
ReturnReconciled(r, token_usage) ==
    IF r.raised THEN Raised ELSE Returned(r.product_requests, token_usage)

\* lines 311-347; len() of a product_requests that is null raises TypeError
ReconcileRequests(tweets, raw_requests, token_usage) ==
    IF raw_requests.type # "array"
    THEN Raised
    ELSE ReturnReconciled(Reconcile(raw_requests.items, tweets), token_usage)

\* lines 301-312: json.loads and analysis_data.get("product_requests", [])
AnalyzeParsed(tweets, analysis_data, token_usage) ==
    IF ~analysis_data.ok
    THEN Returned(<<>>, token_usage)
    ELSE ReconcileRequests(
             tweets, Get(analysis_data.value, "product_requests", Arr(<<>>)),
             token_usage)

\* lines 279-299: validation, then the token usage
AnalyzeResponse(tweets, response_text, usage_metadata) ==
    IF ~ValidateGeminiResponse(response_text)
    THEN Returned(<<>>, ZeroUsage)
    ELSE AnalyzeParsed(tweets, JsonLoads(response_text), TokenUsage(usage_metadata))

\* the body of the try block of analyze_tweets_with_gemini (lines 259-347)
TryAnalyze(tweets, outcome) ==
    IF outcome.raises
    THEN Raised
    ELSE AnalyzeResponse(tweets, CleanResponse(outcome.text), outcome.usage_metadata)

\* faulty variant: the except clause is missing and the exception leaves the call
ExceptPropagates(attempt) == attempt

\* the except clause of analyze_tweets_with_gemini (lines 349-351)
ExceptReturnsEmpty(attempt) ==
    IF attempt.raised THEN Returned(<<>>, ZeroUsage) ELSE attempt

\* the result of analyze_tweets_with_gemini with the provider calls it made
WithCalls(r, calls) ==
    [raised |-> r.raised, product_requests |-> r.product_requests,
     token_usage |-> r.token_usage, calls |-> calls]

\* faulty variant: a call that raised is made a second time
AnalyzeTweetsWithGeminiRetries(tweets, outcome) ==
    IF tweets = <<>>
    THEN WithCalls(Returned(<<>>, ZeroUsage), 0)
    ELSE WithCalls(ExceptReturnsEmpty(TryAnalyze(tweets, outcome)),
                   IF outcome.raises THEN 2 ELSE 1)

\* faulty variant: no early return for an empty list of tweets
AnalyzeTweetsWithGeminiNoEmptyCheck(tweets, outcome) ==
    WithCalls(ExceptReturnsEmpty(TryAnalyze(tweets, outcome)), 1)

\* analyze_tweets_with_gemini
AnalyzeTweetsWithGemini(tweets, outcome) ==
    IF tweets = <<>>
    THEN WithCalls(Returned(<<>>, ZeroUsage), 0)
    ELSE WithCalls(ExceptReturnsEmpty(TryAnalyze(tweets, outcome)), 1)

\* the AnalysisResult built by analyze_tweets
AnalysisResult(total_tweets_analyzed, r) ==
    [raised |-> r.raised, total_tweets_analyzed |-> total_tweets_analyzed,
     product_requests |-> r.product_requests, token_usage |-> r.token_usage,
     calls |-> r.calls]

\* analyze_tweets after load_tweet_data (lines 361-379)
AnalyzeLoaded(all_tweets, outcome) ==
    IF all_tweets = <<>>
    THEN AnalysisResult(0, WithCalls(Returned(<<>>, ZeroUsage), 0))
    ELSE AnalysisResult(Len(all_tweets), AnalyzeTweetsWithGemini(all_tweets, outcome))

\* analyze_tweets, the snapshot file already read into raw_data
AnalyzeTweets(raw_data, outcome) == AnalyzeLoaded(LoadTweetData(raw_data), outcome)

(***************************************************************************)
(* Inputs: raw records, snapshot contents, provider responses              *)
(***************************************************************************)
RawA ==
    [id |-> "a", tweet_text |-> "i wish this existed", user_handle |-> "u1",
     tweet_created_at |-> "t1", tweet_favorite_count |-> 5,
     tweet_retweet_count |-> 2, tweet_reply_count |-> 1, tweet_url |-> "url-a"]

RawB == [id |-> "b", tweet_text |-> "someone build this", user_handle |-> "u2"]

RawC == [id |-> "c", tweet_text |-> "so annoying", tweet_favorite_count |-> 1]

\* a second record carrying the id of RawA
RawA2 == [id |-> "a", tweet_text |-> "same id, other text"]

ExBatches ==
    {<<>>, <<RawA>>, <<RawA, RawB, RawC>>, <<RawC, RawA, RawA2>>}

RECURSIVE SeqsUpTo(_, _)
SeqsUpTo(S, n) ==
    IF n = 0
    THEN {<<>>}
    ELSE LET shorter == SeqsUpTo(S, n - 1)
         IN  shorter \cup {<<c>> \o t : c \in S, t \in {u \in shorter : Len(u) = n - 1}}

WsRuns == SeqsUpTo(Whitespace, MaxWs)

\* what may stand before the body: nothing, a fence, a json fence, a
\* fence cut short
Openers == {<<>>, Fence, FenceJson, <<BQ, BQ>>}

Closers == {<<>>, Fence}

InnerWs == {<<>>, <<"nl">>}

NotJsonText == <<"n", "o", "t", "sp", "j", "s", "o", "n">>

Bodies ==
    {<<>>, NotJsonText, <<"{", "x", "}">>, <<"{", "reqs:[axc]">>,
     <<"[", "]">>, <<"{", "}">>}
    \cup {<<"{", sym, "}">> : sym \in ObjectSymbols}

Responses ==
    {lead \o open \o in1 \o body \o in2 \o close \o trail :
        lead \in WsRuns, open \in Openers, in1 \in InnerWs, body \in Bodies,
        in2 \in InnerWs, close \in Closers, trail \in WsRuns}

NoUsage ==
    [present |-> FALSE, prompt_token_count |-> 0, candidates_token_count |-> 0,
     total_token_count |-> 0]

SomeUsage ==
    [present |-> TRUE, prompt_token_count |-> 11, candidates_token_count |-> 7,
     total_token_count |-> 18]

\* generate_content or response.text raises
ProviderRaises == [raises |-> TRUE, text |-> <<>>, usage_metadata |-> NoUsage]

ProviderOutcomes ==
    {ProviderRaises}
    \cup {[raises |-> FALSE, text |-> t, usage_metadata |-> u] :
             t \in Responses, u \in {NoUsage, SomeUsage}}

NoResult ==
    [raised |-> FALSE, product_requests |-> <<>>, token_usage |-> ZeroUsage,
     calls |-> 0]

(***************************************************************************)
(* The analysis harness: one call of analyze_tweets or of                  *)
(* analyze_tweets_with_gemini on a snapshot                                *)
(***************************************************************************)
ExIdle ==
    /\ exEntry = "none"
    /\ exOutcome = ProviderRaises
    /\ exResult = NoResult

RunIdle ==
    /\ pc = "idle"
    /\ now = 0
    /\ tz = 0
    /\ runs = 0
    /\ env = {}
    /\ gitInstalled = TRUE
    /\ scraped = EmptyObject
    /\ analysis = EmptyObject
    /\ fetched = <<>>
    /\ llmCalls = 0
    /\ llmOutcome = ProviderRaises
    /\ trace = <<>>
    /\ exitCode = "none"

\* the invocations that may run side by side
Invocations == {1, 2}

\* an invocation that has not started: nothing fetched, loaded or written
IdleInvocation ==
    [pc |-> "idle", utc_day |-> 0 - 1, fetched |-> <<>>, loaded |-> <<>>,
     total |-> 0 - 1, overlap |-> FALSE]

\* no second invocation, no second session
ConcIdle ==
    /\ invocations = [p \in Invocations |-> IdleInvocation]
    /\ other_selected = ""
    /\ other_pending = {}

FnIdle ==
    /\ fnName = "none"
    /\ fnInput = <<>>
    /\ fnResult = <<>>

\* no dashboard process
DashIdle ==
    /\ current_date = ""
    /\ product_data = <<>>
    /\ summary_data = <<>>
    /\ data_load_error = "None"
    /\ dark_mode = FALSE
    /\ selected_date = ""
    /\ chosen_by = "layout"
    /\ cards = <<>>
    /\ error_container = <<>>
    /\ date_display = ""
    /\ pending = {}
    /\ callback_error = "None"
    /\ user_date = ""

AuxIdle ==
    /\ FnIdle
    /\ ConcIdle
    /\ writes = <<>>
    /\ DashIdle

InitExtractor ==
    /\ exRaw \in ExBatches
    /\ ExIdle
    /\ RunIdle
    /\ AuxIdle

ExAnalyzeTweets ==
    /\ exEntry = "none"
    /\ \E o \in ProviderOutcomes :
          /\ exOutcome' = o
          /\ exResult' = AnalyzeTweets(exRaw, o)
    /\ exEntry' = "analyze_tweets"
    /\ UNCHANGED <<exRaw, auxVars, runVars, concVars>>

ExAnalyzeTweetsWithGemini ==
    /\ exEntry = "none"
    /\ \E o \in ProviderOutcomes :
          /\ exOutcome' = o
          /\ exResult' = AnalyzeTweetsWithGemini(LoadTweetData(exRaw), o)
    /\ exEntry' = "analyze_tweets_with_gemini"
    /\ UNCHANGED <<exRaw, auxVars, runVars, concVars>>

NextExtractor ==
    \/ ExAnalyzeTweets
    \/ ExAnalyzeTweetsWithGemini

SpecExtractor == InitExtractor /\ [][NextExtractor]_vars

(***************************************************************************)
(* The orchestrator: daily_job.main and the stages it calls.  File-system  *)
(* writes succeed; a run is short against the half day of the clock, so    *)
(* the clock moves between runs only.                                      *)
(***************************************************************************)
Credentials == {"APIFY_TOKEN", "GEMINI_API_KEY", "GITHUB_TOKEN"}

\* datetime.now(timezone.utc), as a calendar date
UtcDate == (now + 1) \div 2

\* datetime.now(), as a calendar date: the local clock is tz half days ahead
LocalDate == (now + 1 + tz) \div 2

\* faulty variant: a file that exists is left as it is
WriteFileKeepsExisting(files, date, content) ==
    [d \in DOMAIN files \cup {date} |-> IF d \in DOMAIN files THEN files[d] ELSE content]

\* open(path, "w") and json.dump: the file of that date is replaced
WriteFile(files, date, content) ==
    [d \in DOMAIN files \cup {date} |-> IF d = date THEN content ELSE files[d]]

\* the snapshots a fetch may return in a run
PipelineBatches == {<<>>, <<RawA>>, <<RawA, RawB, RawC>>}

\* what the provider may do in a run: raise, answer with nothing, answer
\* with prose, answer with a fenced object, answer with a malformed entry
AnswersNothing == [raises |-> FALSE, text |-> <<>>, usage_metadata |-> NoUsage]

AnswersProse ==
    [raises |-> FALSE, text |-> NotJsonText, usage_metadata |-> SomeUsage]

AnswersFencedObject ==
    [raises |-> FALSE,
     text |-> FenceJson \o <<"nl", "{", "reqs:[axc]", "}", "nl">> \o Fence,
     usage_metadata |-> SomeUsage]

AnswersMalformedEntry ==
    [raises |-> FALSE, text |-> <<"{", "reqs:[axc,7]", "}">>,
     usage_metadata |-> SomeUsage]

PipelineOutcomes ==
    {ProviderRaises, AnswersNothing, AnswersProse, AnswersFencedObject,
     AnswersMalformedEntry}

\* faulty variant: the summary counts the tweets where it should count the requests
OutputDataCountsTweets(result) ==
    [summary |->
        [total_tweets_analyzed |-> result.total_tweets_analyzed,
         product_requests_found |-> result.total_tweets_analyzed,
         token_usage |-> result.token_usage],
     product_requests |-> result.product_requests]

\* TweetCategorizer.save_results: the content of the analysis file
OutputData(result) ==
    [summary |->
        [total_tweets_analyzed |-> result.total_tweets_analyzed,
         product_requests_found |-> Len(result.product_requests),
         token_usage |-> result.token_usage],
     product_requests |-> result.product_requests]

\* a stage that no file was written by
NoDate == 0 - 1

\* a stage of the run: its name, what it returned, the date of the file it wrote
Stage(name, ok, wrote) == [stage |-> name, ok |-> ok, wrote |-> wrote]

\* faulty variant: main goes on to categorization whatever run_scraping returned
AfterScrapingIgnoresFailure(ok) == "categorizing"

\* main, lines 190-192: what follows run_scraping
AfterScraping(ok) == IF ok THEN "categorizing" ELSE "failed"

\* faulty variant: main goes back to scraping when run_categorization fails
AfterCategorizationRetries(ok) == IF ok THEN "configure_git" ELSE "scraping"

\* main, lines 195-197: what follows run_categorization
AfterCategorization(ok) == IF ok THEN "configure_git" ELSE "failed"

\* sys.exit(1) at a failed stage
ExitOf(position) == IF position = "failed" THEN "1" ELSE "none"

Init ==
    /\ exRaw = <<>>
    /\ ExIdle
    /\ pc = "idle"
    /\ now = 0
    /\ tz \in {-1, 0, 1}
    /\ runs = 0
    /\ env \in SUBSET Credentials
    /\ gitInstalled \in BOOLEAN
    /\ scraped = EmptyObject
    /\ analysis = EmptyObject
    /\ fetched = <<>>
    /\ llmCalls = 0
    /\ llmOutcome = ProviderRaises
    /\ trace = <<>>
    /\ exitCode = "none"
    /\ AuxIdle

Terminated == pc \in {"idle", "done", "failed", "crashed"}

\* time passes between two invocations
Tick ==
    /\ Terminated
    /\ now < MaxTime
    /\ now' = now + 1
    /\ UNCHANGED <<exVars, concVars, auxVars, pc, tz, runs, env, gitInstalled, scraped, analysis,
                   fetched, llmCalls, llmOutcome, trace, exitCode>>

\* python daily_job.py is invoked: main starts
StartRun ==
    /\ Terminated
    /\ runs < MaxRuns
    /\ runs' = runs + 1
    /\ pc' = "validate"
    /\ fetched' = <<>>
    /\ llmCalls' = 0
    /\ llmOutcome' = ProviderRaises
    /\ trace' = <<>>
    /\ exitCode' = "none"
    /\ UNCHANGED <<exVars, concVars, auxVars, now, tz, env, gitInstalled, scraped, analysis>>

\* main, lines 176-187: the environment check
ValidateEnv ==
    /\ pc = "validate"
    /\ IF "APIFY_TOKEN" \notin env \/ "GEMINI_API_KEY" \notin env
       THEN pc' = "failed" /\ exitCode' = "1"
       ELSE pc' = "scraping" /\ exitCode' = exitCode
    /\ UNCHANGED <<exVars, concVars, auxVars, now, tz, runs, env, gitInstalled, scraped, analysis,
                   fetched, llmCalls, llmOutcome, trace>>

\* run_scraping up to run_scraper's return (run_scraping_job lines 340-358):
\* the provider fails, or returns no run, or the items are drained
Fetch ==
    /\ pc = "scraping"
    /\ \E ok \in BOOLEAN :
          IF ok /\ "APIFY_TOKEN" \in env
          THEN /\ \E batch \in PipelineBatches : fetched' = batch
               /\ pc' = "snapshotting"
               /\ UNCHANGED <<trace, exitCode>>
          ELSE /\ trace' = Append(trace, Stage("scraping", FALSE, NoDate))
               /\ pc' = AfterScraping(FALSE)
               /\ exitCode' = ExitOf(AfterScraping(FALSE))
               /\ UNCHANGED fetched
    /\ UNCHANGED <<exVars, concVars, auxVars, now, tz, runs, env, gitInstalled, scraped, analysis,
                   llmCalls, llmOutcome>>

\* ApifyScraper.save_results and the rest of run_scraping: the snapshot is
\* written under the local date and run_scraping finds the file
Snapshot ==
    /\ pc = "snapshotting"
    /\ scraped' = WriteFile(scraped, LocalDate, fetched)
    /\ trace' = Append(trace, Stage("scraping", TRUE, LocalDate))
    /\ pc' = AfterScraping(TRUE)
    /\ exitCode' = ExitOf(AfterScraping(TRUE))
    /\ UNCHANGED <<exVars, concVars, auxVars, now, tz, runs, env, gitInstalled, analysis, fetched,
                   llmCalls, llmOutcome>>

\* faulty variant: a failed categorization removes the snapshot of the run
CategorizeRollsBack ==
    /\ pc = "categorizing"
    /\ IF UtcDate \notin DOMAIN scraped \/ "GEMINI_API_KEY" \notin env
       THEN /\ trace' = Append(trace, Stage("categorization", FALSE, NoDate))
            /\ pc' = AfterCategorization(FALSE)
            /\ exitCode' = ExitOf(AfterCategorization(FALSE))
            /\ scraped' = [d \in DOMAIN scraped \ {LocalDate} |-> scraped[d]]
            /\ UNCHANGED <<analysis, llmCalls, llmOutcome>>
       ELSE \E o \in PipelineOutcomes :
               \E result \in {AnalyzeTweets(scraped[UtcDate], o)} :
                   /\ llmOutcome' = o
                   /\ llmCalls' = result.calls
                   /\ analysis' =
                         IF result.raised
                         THEN analysis
                         ELSE WriteFile(analysis, LocalDate, OutputData(result))
                   /\ trace' = Append(trace, Stage("categorization", ~result.raised,
                                              IF result.raised THEN NoDate ELSE LocalDate))
                   /\ pc' = AfterCategorization(~result.raised)
                   /\ exitCode' = ExitOf(AfterCategorization(~result.raised))
                   /\ UNCHANGED scraped
    /\ UNCHANGED <<exVars, concVars, auxVars, now, tz, runs, env, gitInstalled, fetched>>

\* run_categorization: the snapshot is looked up under the UTC date, analysed
\* and the analysis written under the local date
Categorize ==
    /\ pc = "categorizing"
    /\ IF UtcDate \notin DOMAIN scraped \/ "GEMINI_API_KEY" \notin env
       THEN /\ trace' = Append(trace, Stage("categorization", FALSE, NoDate))
            /\ pc' = AfterCategorization(FALSE)
            /\ exitCode' = ExitOf(AfterCategorization(FALSE))
            /\ UNCHANGED <<analysis, llmCalls, llmOutcome>>
       ELSE \E o \in PipelineOutcomes :
               \E result \in {AnalyzeTweets(scraped[UtcDate], o)} :
                   /\ llmOutcome' = o
                   /\ llmCalls' = result.calls
                   /\ analysis' =
                         IF result.raised
                         THEN analysis
                         ELSE WriteFile(analysis, LocalDate, OutputData(result))
                   /\ trace' = Append(trace, Stage("categorization", ~result.raised,
                                              IF result.raised THEN NoDate ELSE LocalDate))
                   /\ pc' = AfterCategorization(~result.raised)
                   /\ exitCode' = ExitOf(AfterCategorization(~result.raised))
    /\ UNCHANGED <<exVars, concVars, auxVars, now, tz, runs, env, gitInstalled, scraped, fetched>>

\* configure_git: a git command that exits non-zero is caught
\* (CalledProcessError); a git that cannot be run raises FileNotFoundError,
\* which nothing catches, and main ends with a traceback
ConfigureGit ==
    /\ pc = "configure_git"
    /\ IF gitInstalled
       THEN /\ \E ok \in BOOLEAN : trace' = Append(trace, Stage("configure_git", ok, NoDate))
            /\ pc' = "push_to_github"
            /\ UNCHANGED exitCode
       ELSE /\ trace' = Append(trace, Stage("configure_git", FALSE, NoDate))
            /\ pc' = "crashed"
            /\ exitCode' = "1"
    /\ UNCHANGED <<exVars, concVars, auxVars, now, tz, runs, env, gitInstalled, scraped, analysis,
                   fetched, llmCalls, llmOutcome>>

\* push_to_github and the end of main: every failure is caught and logged
PushToGithub ==
    /\ pc = "push_to_github"
    /\ \E ok \in BOOLEAN : trace' = Append(trace, Stage("push_to_github", ok, NoDate))
    /\ pc' = "done"
    /\ exitCode' = "0"
    /\ UNCHANGED <<exVars, concVars, auxVars, now, tz, runs, env, gitInstalled, scraped, analysis,
                   fetched, llmCalls, llmOutcome>>

Next ==
    \/ Tick
    \/ StartRun
    \/ ValidateEnv
    \/ Fetch
    \/ Snapshot
    \/ Categorize
    \/ ConfigureGit
    \/ PushToGithub

Spec == Init /\ [][Next]_vars

\* main is one thread of straight-line code: a step that is enabled stays
\* enabled until it is taken, and is taken when the call it waits for (the
\* provider's actor run, the model's answer, a git command) returns
RunStep ==
    \/ ValidateEnv
    \/ Fetch
    \/ Snapshot
    \/ Categorize
    \/ ConfigureGit
    \/ PushToGithub

SpecFair == Spec /\ WF_vars(RunStep)

(***************************************************************************)
(* The normalizer harness: load_tweet_data's record mapping applied to a   *)
(* list of raw records, any of whose fields may be missing                 *)
(***************************************************************************)
\* longest list of records handed to the normalizer
MaxBatch == 3

StringKeys == {"id", "tweet_text", "user_handle", "tweet_created_at", "tweet_url"}

CounterKeys ==
    {"tweet_favorite_count", "tweet_retweet_count", "tweet_reply_count"}

\* the values a counter of a raw record takes
CounterValues == {0, 1, 2, 5}

\* the counters of a raw record: any of the three may be missing
CounterChoices == UNION {[present -> CounterValues] : present \in SUBSET CounterKeys}

\* every raw record over the eight keys, with any subset of them missing
RawRecords ==
    {[k \in strs \cup DOMAIN counts |-> IF k \in strs THEN "v-" \o k ELSE counts[k]] :
        strs \in SUBSET StringKeys, counts \in CounterChoices}

\* the records that longer lists are made of
ListedRecords == {RawA, RawB, RawC, RawA2, EmptyObject}

\* the contents of a snapshot file: no record, one record of any shape, or
\* up to MaxBatch records
RawBatches ==
    {<<tweet>> : tweet \in RawRecords} \cup SeqsUpTo(ListedRecords, MaxBatch)

InitNormalizer ==
    /\ exRaw = <<>>
    /\ ExIdle
    /\ RunIdle
    /\ AuxIdle

\* load_tweet_data, from the loop over raw_data on
FnLoadTweetData ==
    /\ fnName = "none"
    /\ \E raw_data \in RawBatches :
          /\ fnInput' = raw_data
          /\ fnResult' = LoadTweetData(raw_data)
    /\ fnName' = "load_tweet_data"
    /\ UNCHANGED <<exVars, concVars, runVars, writes, dashVars>>

NextNormalizer == FnLoadTweetData

SpecNormalizer == InitNormalizer /\ [][NextNormalizer]_vars

(***************************************************************************)
(* The writers harness: ApifyScraper.save_results and                      *)
(* TweetCategorizer.save_results called again and again while the clock    *)
(* advances.  Each call is short against the half day of the clock.        *)
(***************************************************************************)
\* writes in one behaviour
MaxWrites == 4

\* ApifyScraper.save_results: the snapshot of the local date is replaced
ScraperSaveResults(files, results) == WriteFile(files, LocalDate, results)

\* TweetCategorizer.save_results on ANALYSIS_DATA_FILE, the analysis file of
\* the local date at which the module was loaded
CategorizerSaveResults(files, result) == WriteFile(files, LocalDate, OutputData(result))

\* the results handed to the snapshot writer
WrittenBatches == {<<RawA>>, <<RawA, RawB, RawC>>}

\* the results handed to the analysis writer: one insight from three posts,
\* no insight from one post
WrittenResults ==
    {AnalyzeTweets(<<RawA, RawB, RawC>>, AnswersFencedObject),
     AnalyzeTweets(<<RawA>>, AnswersProse)}

Written(writer, date, content) ==
    [writer |-> writer, date |-> date, content |-> content]

InitWriters ==
    /\ exRaw = <<>>
    /\ ExIdle
    /\ pc = "idle"
    /\ now = 0
    /\ tz \in {-1, 0, 1}
    /\ runs = 0
    /\ env = {}
    /\ gitInstalled = TRUE
    /\ scraped = EmptyObject
    /\ analysis = EmptyObject
    /\ fetched = <<>>
    /\ llmCalls = 0
    /\ llmOutcome = ProviderRaises
    /\ trace = <<>>
    /\ exitCode = "none"
    /\ AuxIdle

WriteSnapshot ==
    /\ Len(writes) < MaxWrites
    /\ \E results \in WrittenBatches :
          /\ scraped' = ScraperSaveResults(scraped, results)
          /\ writes' = Append(writes, Written("snapshot", LocalDate, results))
    /\ UNCHANGED <<exVars, concVars, fnVars, dashVars, pc, now, tz, runs, env, gitInstalled, analysis,
                   fetched, llmCalls, llmOutcome, trace, exitCode>>

WriteAnalysis ==
    /\ Len(writes) < MaxWrites
    /\ \E result \in WrittenResults :
          /\ analysis' = CategorizerSaveResults(analysis, result)
          /\ writes' = Append(writes, Written("analysis", LocalDate, OutputData(result)))
    /\ UNCHANGED <<exVars, concVars, fnVars, dashVars, pc, now, tz, runs, env, gitInstalled, scraped,
                   fetched, llmCalls, llmOutcome, trace, exitCode>>

NextWriters ==
    \/ Tick
    \/ WriteSnapshot
    \/ WriteAnalysis

SpecWriters == InitWriters /\ [][NextWriters]_vars

(***************************************************************************)
(* apify_scraper.py: run_scraper, update_dates_dynamically and             *)
(* run_scraping_job, and the harness that calls them                       *)
(***************************************************************************)
\* python's None
PyNone == [type |-> "None"]

\* a python list
PyList(items) == [type |-> "list", items |-> items]

\* a call that raised, a call that returned
FnRaised == [raised |-> TRUE, value |-> PyNone]

FnReturned(value) == [raised |-> FALSE, value |-> value]

\* what the Apify client does in run_scraper: actor(...).call raises, or
\* returns None, an empty run, a run without dataset id, or a finished run;
\* iterate_items raises or yields the items
ActorCalls == {"raises", "None", "empty", "no dataset id", "run"}

ProviderRuns ==
    {[call |-> c, iterate_raises |-> r, items |-> items] :
        c \in ActorCalls, r \in BOOLEAN,
        items \in SeqsUpTo({RawA, RawB, RawC}, MaxBatch)}

\* lines 166-167: results.append(item) for every item of the dataset
RECURSIVE Drain(_, _)
Drain(results, items) ==
    IF items = <<>> THEN results ELSE Drain(Append(results, Head(items)), Tail(items))

\* faulty variant: a run that is None or empty gives the empty list
RunScraperEmptyWithoutRun(provider) ==
    IF provider.call = "raises"
    THEN FnRaised
    ELSE IF provider.call \in {"None", "empty"}
    THEN FnReturned(PyList(<<>>))
    ELSE IF provider.call = "no dataset id"
    THEN FnRaised
    ELSE IF provider.iterate_raises
    THEN FnRaised
    ELSE FnReturned(PyList(Drain(<<>>, provider.items)))

\* ApifyScraper.run_scraper
RunScraper(provider) ==
    IF provider.call = "raises"
    THEN FnRaised
    ELSE IF provider.call \in {"None", "empty"}
    THEN FnRaised
    ELSE IF provider.call = "no dataset id"
    THEN FnRaised
    ELSE IF provider.iterate_raises
    THEN FnRaised
    ELSE FnReturned(PyList(Drain(<<>>, provider.items)))

\* the days of each month of 2025
DaysInMonth == <<31, 28, 31, 30, 31, 30, 31, 31, 30, 31, 30, 31>>

\* the month and the day of the n-th day of 2025, counted from month m on
RECURSIVE MonthDay(_, _)
MonthDay(n, m) ==
    IF n <= DaysInMonth[m] THEN <<m, n>> ELSE MonthDay(n - DaysInMonth[m], m + 1)

\* strftime("%Y-%m-%d") of the day n days after 2024-12-31, as the fields of
\* the text: year, month, day. Fixed-width fields: texts compare as the
\* fields do, left to right.
FormatDate(n) ==
    IF n <= 0
    THEN <<2024, 12, 31 + n>>
    ELSE IF n <= 365
    THEN <<2025, MonthDay(n, 1)[1], MonthDay(n, 1)[2]>>
    ELSE <<2026, 1, n - 365>>

\* s < t for two formatted dates
DateBefore(s, t) ==
    \/ s[1] < t[1]
    \/ s[1] = t[1] /\ s[2] < t[2]
    \/ s[1] = t[1] /\ s[2] = t[2] /\ s[3] < t[3]

\* faulty variant: a since or until of the configuration is kept
UpdateDatesKeepsConfigured(config, today) ==
    [k \in DOMAIN config \cup {"since", "until"} |->
        IF k \in DOMAIN config THEN config[k]
        ELSE IF k = "since" THEN FormatDate(today - 2)
        ELSE FormatDate(today)]

\* update_dates_dynamically: a copy of config with since and until replaced
UpdateDatesDynamically(config, today) ==
    [k \in DOMAIN config \cup {"since", "until"} |->
        IF k = "since" THEN FormatDate(today - 2)
        ELSE IF k = "until" THEN FormatDate(today)
        ELSE config[k]]

\* ApifyScraperConfig and run_input: the window handed to the actor
RunInputWindow(config) ==
    [since |-> Get(config, "since", <<2025, 7, 26>>),
     until |-> Get(config, "until", <<2025, 7, 27>>),
     maxItems |-> Get(config, "maxItems", "1000")]

\* a run_scraping_job that made no fetch, one that fetched with that input
NoFetch(config) ==
    [fetched |-> FALSE, run_input |-> PyNone, config |-> config, returned |-> PyNone]

Fetched(config, run_input, returned) ==
    [fetched |-> TRUE, run_input |-> run_input, config |-> config,
     returned |-> returned]

\* lines 349-367 of run_scraping_job: the scraper is made, run, and the
\* results saved; a failure of either is the None of the except clause
JobFetch(config, updated, has_token, provider) ==
    IF ~has_token
    THEN NoFetch(config)
    ELSE Fetched(config, RunInputWindow(updated),
                 IF RunScraper(provider).raised THEN PyNone ELSE [path |-> "file"])

\* run_scraping_job: the configuration given or loaded, the window
\* recomputed, the fetch
RunScrapingJob(config, config_file, today, has_token, provider) ==
    IF config = PyNone /\ config_file = PyNone
    THEN NoFetch(config)
    ELSE IF config = PyNone
    THEN JobFetch(config_file, UpdateDatesDynamically(config_file, today),
                  has_token, provider)
    ELSE JobFetch(config, UpdateDatesDynamically(config, today), has_token, provider)

\* the configurations: none, one without window, one with a past window,
\* one whose since is after its until
ConfigEmpty == [maxItems |-> "10"]

ConfigPastWindow ==
    [maxItems |-> "10", since |-> <<2025, 7, 26>>, until |-> <<2025, 7, 27>>]

ConfigReversedWindow == [since |-> <<2026, 1, 5>>, until |-> <<2025, 1, 1>>]

Configs == {ConfigEmpty, ConfigPastWindow, ConfigReversedWindow}

\* the days on which the job runs: 2025-01-01 to 2026-01-31
Todays == 1..396

JobProviders ==
    {[call |-> c, iterate_raises |-> FALSE, items |-> <<RawA>>] : c \in {"raises", "run"}}

InitFetcher ==
    /\ exRaw = <<>>
    /\ ExIdle
    /\ RunIdle
    /\ AuxIdle

FnRunScraper ==
    /\ fnName = "none"
    /\ \E provider \in ProviderRuns :
          /\ fnInput' = provider
          /\ fnResult' = RunScraper(provider)
    /\ fnName' = "run_scraper"
    /\ UNCHANGED <<exVars, concVars, runVars, writes, dashVars>>

FnRunScrapingJob ==
    /\ fnName = "none"
    /\ \E config \in Configs \cup {PyNone}, config_file \in Configs \cup {PyNone},
          today \in Todays, has_token \in BOOLEAN, provider \in JobProviders :
          /\ fnInput' = [config |-> config, config_file |-> config_file,
                         today |-> today, has_token |-> has_token,
                         provider |-> provider]
          /\ fnResult' = RunScrapingJob(config, config_file, today, has_token, provider)
    /\ fnName' = "run_scraping_job"
    /\ UNCHANGED <<exVars, concVars, runVars, writes, dashVars>>

NextFetcher ==
    \/ FnRunScraper
    \/ FnRunScrapingJob

SpecFetcher == InitFetcher /\ [][NextFetcher]_vars

(***************************************************************************)
(* dashboard.py: loading the analysis file of a date                       *)
(***************************************************************************)
\* the classes of the exceptions raised while loading, each with its bases
Bases(cls) ==
    CASE cls = "FileNotFoundError" -> {"FileNotFoundError", "OSError", "Exception"}
      [] cls = "PermissionError" -> {"PermissionError", "OSError", "Exception"}
      [] cls = "IsADirectoryError" -> {"IsADirectoryError", "OSError", "Exception"}
      [] cls = "JSONDecodeError" -> {"JSONDecodeError", "ValueError", "Exception"}
      [] cls = "UnicodeDecodeError" -> {"UnicodeDecodeError", "ValueError", "Exception"}
      [] cls = "ValueError" -> {"ValueError", "Exception"}
      [] cls = "KeyError" -> {"KeyError", "LookupError", "Exception"}

\* the first except clause, in the order written, that catches an exception
\* of that class; 0 when none does
FirstClause(clauses, cls) ==
    LET hits == {i \in 1..Len(clauses) : clauses[i] \in Bases(cls)}
    IN  IF hits = {} THEN 0 ELSE CHOOSE i \in hits : \A j \in hits : i <= j

\* the files of data/analysis: one that cannot be read, a directory, bytes
\* that are not UTF-8, a text that is not JSON, a text that is a JSON value
FileDenied == [state |-> "denied", data |-> JsonNull]

FileDirectory == [state |-> "directory", data |-> JsonNull]

FileNotText == [state |-> "not utf-8", data |-> JsonNull]

FileNotJson == [state |-> "not json", data |-> JsonNull]

FileOf(data) == [state |-> "json", data |-> data]

\* the tweets and requests of the analysis files
TweetA == Obj(TweetDataOf(RawA))

TweetC == Obj(TweetDataOf(RawC))

RequestOne ==
    Obj([category |-> "Developer Tool", description |-> "d1", pain_point |-> "p1",
         target_audience |-> "Developers", urgency_level |-> "High",
         tweets |-> Arr(<<TweetA, TweetC>>)])

RequestTwo ==
    Obj([category |-> "Health App", description |-> "d2", pain_point |-> "p2",
         target_audience |-> "Students", urgency_level |-> "Low",
         tweets |-> Arr(<<>>)])

SummaryOf(total, found) ==
    Obj([total_tweets_analyzed |-> total, product_requests_found |-> found,
         token_usage |-> ZeroUsage])

\* analysis files that load: one request, two requests, no request
DataOne ==
    Obj([product_requests |-> Arr(<<RequestOne>>), summary |-> SummaryOf(3, 1)])

DataTwo ==
    Obj([product_requests |-> Arr(<<RequestTwo, RequestOne>>),
         summary |-> SummaryOf(3, 2)])

DataNoRequest == Obj([product_requests |-> Arr(<<>>), summary |-> SummaryOf(0, 0)])

\* analysis files that do not load
DataOnlyRequests == Obj([product_requests |-> Arr(<<>>)])

DataOnlySummary == Obj([summary |-> SummaryOf(0, 0)])

DataNoKey == Obj([other |-> JsonNumber])

DataTopLevelArray == Arr(<<RequestOne>>)

DataRequestsNotList ==
    Obj([product_requests |-> Obj([a |-> RequestOne]), summary |-> SummaryOf(3, 1)])

DataSummaryNotDict ==
    Obj([product_requests |-> Arr(<<RequestOne>>), summary |-> Arr(<<>>)])

LoadableData == {DataOne, DataTwo, DataNoRequest}

\* analysis files that load and whose entries are not what the cards read: a
\* request without category, a request that is a number, a tweet without url
RequestNoCategory ==
    Obj([description |-> "d3", pain_point |-> "p3", target_audience |-> "Teams",
         urgency_level |-> "Low", tweets |-> Arr(<<>>)])

TweetNoUrl ==
    Obj([id |-> "a", text |-> "t", user_handle |-> "u", created_at |-> "c",
         engagement_score |-> 0])

RequestTweetNoUrl ==
    Obj([category |-> "Health App", description |-> "d4", pain_point |-> "p4",
         target_audience |-> "Students", urgency_level |-> "Low",
         tweets |-> Arr(<<TweetA, TweetNoUrl>>)])

DataRequestNoCategory ==
    Obj([product_requests |-> Arr(<<RequestOne, RequestNoCategory>>),
         summary |-> SummaryOf(3, 2)])

DataEntryNotObject ==
    Obj([product_requests |-> Arr(<<JsonNumber>>), summary |-> SummaryOf(3, 1)])

DataTweetNoUrl ==
    Obj([product_requests |-> Arr(<<RequestTweetNoUrl>>), summary |-> SummaryOf(3, 1)])

UncheckedData == {DataRequestNoCategory, DataEntryNotObject, DataTweetNoUrl}

MissingKeyData == {DataOnlyRequests, DataOnlySummary, DataNoKey}

WrongTypeData == {DataTopLevelArray, JsonNumber, DataRequestsNotList, DataSummaryNotDict}

FileStates ==
    {FileDenied, FileDirectory, FileNotText, FileNotJson}
    \cup {FileOf(data) : data \in LoadableData \cup UncheckedData
                                    \cup MissingKeyData \cup WrongTypeData}

\* what load_analysis_data raised, what it returned
LoadRaised(cls) == [raised |-> cls, product_requests |-> <<>>, summary |-> EmptyObject]

LoadReturned(product_requests, summary) ==
    [raised |-> "None", product_requests |-> product_requests, summary |-> summary]

\* the try block of load_analysis_data once json.load returned data
\* (lines 128-148)
CheckData(data) ==
    IF data.type # "object"
    THEN LoadRaised("ValueError")
    ELSE IF "product_requests" \notin DOMAIN data.obj
    THEN LoadRaised("KeyError")
    ELSE IF "summary" \notin DOMAIN data.obj
    THEN LoadRaised("KeyError")
    ELSE IF data.obj.product_requests.type # "array"
    THEN LoadRaised("ValueError")
    ELSE IF data.obj.summary.type # "object"
    THEN LoadRaised("ValueError")
    ELSE LoadReturned(data.obj.product_requests.items, data.obj.summary.obj)

\* the try block of load_analysis_data (lines 124-148): open, json.load and
\* the checks
TryLoad(files, date) ==
    IF date \notin DOMAIN files
    THEN LoadRaised("FileNotFoundError")
    ELSE CASE files[date].state = "denied" -> LoadRaised("PermissionError")
           [] files[date].state = "directory" -> LoadRaised("IsADirectoryError")
           [] files[date].state = "not utf-8" -> LoadRaised("UnicodeDecodeError")
           [] files[date].state = "not json" -> LoadRaised("JSONDecodeError")
           [] files[date].state = "json" -> CheckData(files[date].data)

\* the except clauses of load_analysis_data, in the order written: each
\* raises an exception of its own class with a new message
LoadClauses ==
    <<"FileNotFoundError", "JSONDecodeError", "KeyError", "PermissionError",
      "ValueError">>

\* load_analysis_data
LoadAnalysisData(files, date) ==
    LET attempt == TryLoad(files, date)
    IN  IF attempt.raised = "None" \/ FirstClause(LoadClauses, attempt.raised) = 0
        THEN attempt
        ELSE LoadRaised(LoadClauses[FirstClause(LoadClauses, attempt.raised)])

\* faulty variant: the ValueError clause is written before the others
HandlingClausesValueErrorFirst ==
    <<"ValueError", "FileNotFoundError", "JSONDecodeError", "KeyError",
      "PermissionError", "Exception">>

\* the except clauses of load_data_with_error_handling, in the order written
HandlingClauses ==
    <<"FileNotFoundError", "JSONDecodeError", "KeyError", "PermissionError",
      "ValueError", "Exception">>

\* the message each clause of load_data_with_error_handling sets
MessageOf(clause) ==
    CASE clause = "FileNotFoundError" -> "Data file not found for date"
      [] clause = "JSONDecodeError" -> "Data file contains invalid JSON format"
      [] clause = "KeyError" -> "Data file is missing required information"
      [] clause = "PermissionError" ->
            "Cannot read the data file due to permission restrictions"
      [] clause = "ValueError" -> "Data file has invalid format"
      [] clause = "Exception" -> "An unexpected error occurred while loading data"

\* the value None of data_load_error and of the message returned
NoError == "None"

\* what load_data_with_error_handling leaves: the three values returned (or
\* the exception that left it) and the globals it assigns
Handled(raised, product_requests, summary, error_msg, date) ==
    [raised |-> raised, product_data |-> product_requests, summary_data |-> summary,
     error_msg |-> error_msg, data_load_error |-> error_msg, current_date |-> date]

\* the except clauses of load_data_with_error_handling (lines 194-232)
HandleLoad(loaded, date, error_before) ==
    IF loaded.raised = "None"
    THEN Handled("None", loaded.product_requests, loaded.summary, NoError, date)
    ELSE IF FirstClause(HandlingClauses, loaded.raised) = 0
    THEN [raised |-> loaded.raised, product_data |-> <<>>,
          summary_data |-> EmptyObject, error_msg |-> NoError,
          data_load_error |-> error_before, current_date |-> date]
    ELSE Handled("None", <<>>, EmptyObject,
                 MessageOf(HandlingClauses[FirstClause(HandlingClauses, loaded.raised)]),
                 date)

\* load_data_with_error_handling(date_str), with None for no argument: the
\* date loaded is date_str, or the current date
LoadDataWithErrorHandling(files, date_before, error_before, date_str) ==
    IF date_str = "None"
    THEN HandleLoad(LoadAnalysisData(files, date_before), date_before, error_before)
    ELSE HandleLoad(LoadAnalysisData(files, date_str), date_str, error_before)

\* the dates of the analysis files, as the DDMMYY of the file names
DashDates == {"010125", "020125"}

\* the directory data/analysis: any file, or none, for each date
DashFiles == UNION {[present -> FileStates] : present \in SUBSET DashDates}

InitDashboardLoad ==
    /\ exRaw = <<>>
    /\ ExIdle
    /\ RunIdle
    /\ AuxIdle

FnLoadDataWithErrorHandling ==
    /\ fnName = "none"
    /\ \E files \in DashFiles, date_before \in DashDates,
          date_str \in DashDates \cup {"None"} :
          /\ fnInput' = [files |-> files, current_date |-> date_before,
                         date_str |-> date_str]
          /\ fnResult' = LoadDataWithErrorHandling(files, date_before, NoError, date_str)
    /\ fnName' = "load_data_with_error_handling"
    /\ UNCHANGED <<exVars, concVars, runVars, writes, dashVars>>

NextDashboardLoad == FnLoadDataWithErrorHandling

SpecDashboardLoad == InitDashboardLoad /\ [][NextDashboardLoad]_vars

(***************************************************************************)
(* From the analysis writer to the dashboard: json.dump of output_data in  *)
(* TweetCategorizer.save_results, json.load in load_analysis_data          *)
(***************************************************************************)
\* the dict save_results builds for a tweet (lines 401-408), as JSON
DumpTweet(tweet) ==
    Obj([id |-> tweet.id, text |-> tweet.text, user_handle |-> tweet.user_handle,
         created_at |-> tweet.created_at,
         engagement_score |-> tweet.engagement_score, url |-> tweet.url])

\* the dict save_results builds for a request (lines 395-411), as JSON
DumpRequest(req) ==
    Obj([category |-> req.category, description |-> req.description,
         pain_point |-> req.pain_point, target_audience |-> req.target_audience,
         urgency_level |-> req.urgency_level,
         tweets |-> Arr([i \in 1..Len(req.tweets) |-> DumpTweet(req.tweets[i])])])

\* json.dump of output_data (line 422): the JSON value of the file
JsonDump(output_data) ==
    Obj([summary |-> Obj(output_data.summary),
         product_requests |->
             Arr([i \in 1..Len(output_data.product_requests) |->
                     DumpRequest(output_data.product_requests[i])])])

\* the analysis directory after save_results(result) on an empty directory,
\* as the dashboard finds it under the date of its file name
SavedAnalysis(result, date) ==
    [d \in {date} |->
        FileOf(JsonDump(CategorizerSaveResults(EmptyObject, result)[LocalDate]))]

(***************************************************************************)
(* dashboard.py: the process-wide state and the callbacks of the page.     *)
(* The server runs each callback request on a thread of its own: the       *)
(* callbacks triggered by one change run in any order.                     *)
(***************************************************************************)
\* the dates of the analysis files, oldest first
DashDateList == <<"010125", "020125">>

\* the dates on which the dashboard process may be launched
DashTodays == DashDates \cup {"030125"}

\* get_available_dates: the dates of the files of data/analysis, newest first
RECURSIVE NewestFirst(_, _)
NewestFirst(files, i) ==
    IF i = 0
    THEN <<>>
    ELSE IF DashDateList[i] \in DOMAIN files
    THEN <<DashDateList[i]>> \o NewestFirst(files, i - 1)
    ELSE NewestFirst(files, i - 1)

GetAvailableDates(files) == NewestFirst(files, Len(DashDateList))

\* render_error_and_header: the value it gives the date selector
DateValue(files, date) ==
    IF GetAvailableDates(files) = <<>>
    THEN "none"
    ELSE IF date \in DOMAIN files
    THEN date
    ELSE GetAvailableDates(files)[1]

\* the error alert of error-container, with its retry button
ErrorComponents(error) ==
    IF error # NoError THEN <<[alert |-> error, retry |-> TRUE]>> ELSE <<>>

\* the first value of a function over 1..n that is not "None"
FirstRaised(raised) ==
    LET bad == {i \in DOMAIN raised : raised[i] # "None"}
    IN  IF bad = {} THEN "None" ELSE raised[CHOOSE i \in bad : \A j \in bad : i <= j]

\* create_tweet_card: the exception it raises, "None" when it returns
TweetCardRaises(tweet) ==
    IF tweet.type # "object"
    THEN "TypeError"
    ELSE IF {"text", "user_handle", "created_at", "engagement_score", "url"}
               \subseteq DOMAIN tweet.obj
    THEN "None"
    ELSE "KeyError"

\* create_tweets_list: a card for each element the value of tweets iterates
\* over (the keys of an object are strings; null and numbers do not iterate)
TweetsListRaises(tweets) ==
    IF tweets.type = "array"
    THEN FirstRaised([i \in 1..Len(tweets.items) |-> TweetCardRaises(tweets.items[i])])
    ELSE IF tweets.type = "object" /\ DOMAIN tweets.obj = {}
    THEN "None"
    ELSE "TypeError"

\* create_product_card: .get on the entry, the tweets list, then the four
\* subscripted fields
ProductCardRaises(product) ==
    IF product.type # "object"
    THEN "AttributeError"
    ELSE IF "tweets" \in DOMAIN product.obj
            /\ TweetsListRaises(product.obj.tweets) # "None"
    THEN TweetsListRaises(product.obj.tweets)
    ELSE IF {"category", "target_audience", "description", "pain_point"}
               \subseteq DOMAIN product.obj
    THEN "None"
    ELSE "KeyError"

\* the exception that leaves the list comprehension over product_data
\* (render_cards 867-870, handle_retry_load 1081-1084)
CardsRaise(products, error) ==
    IF error # NoError \/ products = <<>>
    THEN "None"
    ELSE FirstRaised([idx \in 1..Len(products) |-> ProductCardRaises(products[idx])])

\* the children render_cards and handle_retry_load give cards-container
CardComponents(products, error) ==
    IF error # NoError
    THEN <<[card |-> "No product data available. Please fix the data loading error above."]>>
    ELSE IF products = <<>>
    THEN <<[card |-> "No product data found in the analysis file."]>>
    ELSE [idx \in 1..Len(products) |-> [card |-> "product", product |-> products[idx]]]

\* update_date_display: the text shown for the current date
DisplayOf(date) == "date " \o date

\* faulty variant: data_load_error keeps the value it had before the reload
ReloadDataKeepsError(files, date_before, error_before, date_str) ==
    [LoadDataWithErrorHandling(files, date_before, error_before, date_str)
        EXCEPT !.data_load_error = error_before]

\* reload_data: the globals it leaves
ReloadData(files, date_before, error_before, date_str) ==
    LoadDataWithErrorHandling(files, date_before, error_before, date_str)

\* the module is loaded on a day, with some files in data/analysis, and the
\* page is opened: the layout is shown and its callbacks are triggered
InitDashboard ==
    /\ exRaw = <<>>
    /\ ExIdle
    /\ pc = "idle"
    /\ now = 0
    /\ tz = 0
    /\ runs = 0
    /\ env = {}
    /\ gitInstalled = TRUE
    /\ scraped = EmptyObject
    /\ analysis \in DashFiles
    /\ fetched = <<>>
    /\ llmCalls = 0
    /\ llmOutcome = ProviderRaises
    /\ trace = <<>>
    /\ exitCode = "none"
    /\ FnIdle
    /\ ConcIdle
    /\ writes = <<>>
    /\ \E today \in DashTodays :
          \E loaded \in {LoadDataWithErrorHandling(analysis, today, NoError, "None")} :
              /\ current_date = loaded.current_date
              /\ product_data = loaded.product_data
              /\ summary_data = loaded.summary_data
              /\ data_load_error = loaded.data_load_error
    /\ dark_mode = FALSE
    /\ selected_date = ""
    /\ chosen_by = "layout"
    /\ cards = <<>>
    /\ error_container = <<>>
    /\ date_display = ""
    /\ pending = {"render_error_and_header", "render_cards", "update_date_display"}
    /\ callback_error = "None"
    /\ user_date = ""

\* the user picks another date in the date selector
SelectDate ==
    /\ pending = {}
    /\ \E date \in DOMAIN analysis :
          /\ date # selected_date
          /\ selected_date' = date
    /\ user_date' = selected_date'
    /\ chosen_by' = "user"
    /\ pending' = {"render_cards", "update_date_display"}
    /\ UNCHANGED <<exVars, concVars, fnVars, writes, runVars, current_date, product_data,
                   summary_data, data_load_error, dark_mode, cards,
                   error_container, date_display, callback_error>>

\* the user flips the theme switch
ToggleTheme ==
    /\ pending = {}
    /\ dark_mode' = ~dark_mode
    /\ pending' = {"render_error_and_header", "render_cards", "update_date_display"}
    /\ UNCHANGED <<exVars, concVars, fnVars, writes, runVars, current_date, product_data,
                   summary_data, data_load_error, selected_date, chosen_by, cards,
                   error_container, date_display, callback_error, user_date>>

\* render_error_and_header; the value it gives date-selector triggers the
\* callbacks that have date-selector as input, which wait for it
RenderErrorAndHeader ==
    /\ "render_error_and_header" \in pending
    /\ error_container' = ErrorComponents(data_load_error)
    /\ selected_date' = DateValue(analysis, current_date)
    /\ chosen_by' = "callback"
    /\ pending' = (pending \ {"render_error_and_header"})
                      \cup {"render_cards", "update_date_display"}
    /\ UNCHANGED <<exVars, concVars, fnVars, writes, runVars, current_date, product_data,
                   summary_data, data_load_error, dark_mode, cards, date_display,
                   callback_error, user_date>>

\* render_cards; when building a card raises, the callback request fails and
\* cards-container keeps its children
RenderCards ==
    /\ "render_cards" \in pending
    /\ "render_error_and_header" \notin pending
    /\ IF selected_date # "" /\ selected_date # "none" /\ selected_date # current_date
       THEN \E loaded \in {ReloadData(analysis, current_date, data_load_error,
                                      selected_date)} :
               /\ current_date' = loaded.current_date
               /\ product_data' = loaded.product_data
               /\ summary_data' = loaded.summary_data
               /\ data_load_error' = loaded.data_load_error
               /\ callback_error' = CardsRaise(loaded.product_data, loaded.data_load_error)
               /\ cards' = IF callback_error' = "None"
                           THEN CardComponents(loaded.product_data,
                                               loaded.data_load_error)
                           ELSE cards
       ELSE /\ callback_error' = CardsRaise(product_data, data_load_error)
            /\ cards' = IF callback_error' = "None"
                        THEN CardComponents(product_data, data_load_error)
                        ELSE cards
            /\ UNCHANGED <<current_date, product_data, summary_data, data_load_error>>
    /\ pending' = pending \ {"render_cards"}
    /\ UNCHANGED <<exVars, concVars, fnVars, writes, runVars, dark_mode, selected_date,
                   chosen_by, error_container, date_display, user_date>>

\* update_date_display
UpdateDateDisplay ==
    /\ "update_date_display" \in pending
    /\ "render_error_and_header" \notin pending
    /\ current_date' =
          IF selected_date # "" /\ selected_date # "none"
          THEN selected_date
          ELSE current_date
    /\ date_display' = DisplayOf(current_date')
    /\ pending' = pending \ {"update_date_display"}
    /\ UNCHANGED <<exVars, concVars, fnVars, writes, runVars, product_data, summary_data,
                   data_load_error, dark_mode, selected_date, chosen_by, cards,
                   error_container, callback_error, user_date>>

\* handle_retry_load: the user clicks the retry button of the error alert
HandleRetryLoad ==
    /\ pending = {}
    /\ error_container # <<>>
    /\ \E loaded \in {ReloadData(analysis, current_date, data_load_error, "None")} :
          /\ current_date' = loaded.current_date
          /\ product_data' = loaded.product_data
          /\ summary_data' = loaded.summary_data
          /\ data_load_error' = loaded.data_load_error
          /\ callback_error' = CardsRaise(loaded.product_data, loaded.data_load_error)
          /\ error_container' =
                IF callback_error' = "None"
                THEN ErrorComponents(loaded.data_load_error)
                ELSE error_container
          /\ cards' = IF callback_error' = "None"
                      THEN CardComponents(loaded.product_data, loaded.data_load_error)
                      ELSE cards
    /\ UNCHANGED <<exVars, concVars, fnVars, writes, runVars, dark_mode, selected_date,
                   chosen_by, date_display, pending, user_date>>

NextDashboard ==
    \/ SelectDate
    \/ ToggleTheme
    \/ RenderErrorAndHeader
    \/ RenderCards
    \/ UpdateDateDisplay
    \/ HandleRetryLoad

SpecDashboard == InitDashboard /\ [][NextDashboard]_vars

(***************************************************************************)
(* Two invocations of daily_job.py on the same data directory.  Nothing in *)
(* the code (no lock file, no pid file) keeps a second invocation from     *)
(* starting while the first one runs; the steps of the two interleave at   *)
(* the file operations.  A file is written and read as a whole.            *)
(***************************************************************************)
Running(p) == invocations[p].pc \notin {"idle", "done", "failed"}

OtherInvocation(p) == CHOOSE q \in Invocations : q # p

\* the record of invocation p after a step, the other invocation untouched
Moved(p, record) == [invocations EXCEPT ![p] = record]

InitTwoRuns ==
    /\ exRaw = <<>>
    /\ ExIdle
    /\ pc = "idle"
    /\ now = 0
    /\ tz \in {-1, 0, 1}
    /\ runs = 0
    /\ env = Credentials
    /\ gitInstalled = TRUE
    /\ scraped = EmptyObject
    /\ analysis = EmptyObject
    /\ fetched = <<>>
    /\ llmCalls = 0
    /\ llmOutcome = ProviderRaises
    /\ trace = <<>>
    /\ exitCode = "none"
    /\ AuxIdle

\* time passes while no invocation runs
TickBetweenRuns ==
    /\ \A p \in Invocations : ~Running(p)
    /\ now < MaxTime
    /\ now' = now + 1
    /\ UNCHANGED <<exVars, concVars, auxVars, pc, tz, runs, env, gitInstalled, scraped, analysis,
                   fetched, llmCalls, llmOutcome, trace, exitCode>>

\* python daily_job.py: main starts, whatever another invocation is doing
InvocationStart(p) ==
    /\ invocations[p].pc = "idle"
    /\ invocations' =
          [q \in Invocations |->
              IF q = p
              THEN [invocations[p] EXCEPT
                       !.pc = "scraping",
                       !.utc_day = UtcDate,
                       !.overlap = Running(OtherInvocation(p))]
              ELSE [invocations[q] EXCEPT
                       !.overlap = invocations[q].overlap \/ Running(q)]]
    /\ UNCHANGED <<exVars, runVars, fnVars, writes, dashVars, other_selected,
                   other_pending>>

\* run_scraper: the provider fails, or the posts are drained
InvocationFetch(p) ==
    /\ invocations[p].pc = "scraping"
    /\ \/ invocations' = Moved(p, [invocations[p] EXCEPT !.pc = "failed"])
       \/ \E batch \in PipelineBatches :
             invocations' =
                 Moved(p, [invocations[p] EXCEPT !.pc = "snapshotting",
                                                 !.fetched = batch])
    /\ UNCHANGED <<exVars, runVars, fnVars, writes, dashVars, other_selected,
                   other_pending>>

\* ApifyScraper.save_results: the file of the local date is opened with "w"
InvocationSnapshot(p) ==
    /\ invocations[p].pc = "snapshotting"
    /\ scraped' = WriteFile(scraped, LocalDate, invocations[p].fetched)
    /\ invocations' = Moved(p, [invocations[p] EXCEPT !.pc = "loading"])
    /\ UNCHANGED <<exVars, fnVars, writes, dashVars, other_selected, other_pending,
                   pc, now, tz, runs, env, gitInstalled, analysis, fetched,
                   llmCalls, llmOutcome, trace, exitCode>>

\* run_categorization up to load_tweet_data: the file of the UTC date is
\* looked up and read
InvocationLoad(p) ==
    /\ invocations[p].pc = "loading"
    /\ invocations' =
          IF UtcDate \notin DOMAIN scraped
          THEN Moved(p, [invocations[p] EXCEPT !.pc = "failed"])
          ELSE Moved(p, [invocations[p] EXCEPT !.pc = "analyzing",
                                               !.loaded = scraped[UtcDate]])
    /\ UNCHANGED <<exVars, runVars, fnVars, writes, dashVars, other_selected,
                   other_pending>>

\* the rest of analyze_tweets, TweetCategorizer.save_results under the
\* local date, and the best-effort publishing
InvocationSave(p) ==
    /\ invocations[p].pc = "analyzing"
    /\ \E o \in PipelineOutcomes :
          \E result \in {AnalyzeTweets(invocations[p].loaded, o)} :
              IF result.raised
              THEN /\ invocations' = Moved(p, [invocations[p] EXCEPT !.pc = "failed"])
                   /\ UNCHANGED analysis
              ELSE /\ analysis' = WriteFile(analysis, LocalDate, OutputData(result))
                   /\ invocations' =
                         Moved(p, [invocations[p] EXCEPT
                                      !.pc = "done",
                                      !.total = result.total_tweets_analyzed])
    /\ UNCHANGED <<exVars, fnVars, writes, dashVars, other_selected, other_pending,
                   pc, now, tz, runs, env, gitInstalled, scraped, fetched,
                   llmCalls, llmOutcome, trace, exitCode>>

NextTwoRuns ==
    \/ TickBetweenRuns
    \/ \E p \in Invocations : InvocationStart(p)
    \/ \E p \in Invocations : InvocationFetch(p)
    \/ \E p \in Invocations : InvocationSnapshot(p)
    \/ \E p \in Invocations : InvocationLoad(p)
    \/ \E p \in Invocations : InvocationSave(p)

SpecTwoRuns == InitTwoRuns /\ [][NextTwoRuns]_vars

(***************************************************************************)
(* A second browser session on the same dashboard process.  Its callbacks  *)
(* are the same functions, run by the same process on the same globals;    *)
(* what they return goes to the second session's page, which is not        *)
(* modelled.  Both dates have a file, and the two files differ.            *)
(***************************************************************************)
InitTwoSessions ==
    /\ InitDashboard
    /\ analysis \in [DashDates -> {FileOf(DataOne), FileOf(DataTwo), FileNotJson}]
    /\ analysis["010125"] # analysis["020125"]

\* the user of the second session picks another date
OtherSelectDate ==
    /\ other_pending = {}
    /\ \E date \in DOMAIN analysis :
          /\ date # other_selected
          /\ other_selected' = date
    /\ other_pending' = {"render_cards", "update_date_display"}
    /\ UNCHANGED <<exVars, runVars, fnVars, writes, dashVars, invocations>>

\* render_cards for the second session
OtherRenderCards ==
    /\ "render_cards" \in other_pending
    /\ IF other_selected # "" /\ other_selected # "none"
          /\ other_selected # current_date
       THEN \E loaded \in {ReloadData(analysis, current_date, data_load_error,
                                      other_selected)} :
               /\ current_date' = loaded.current_date
               /\ product_data' = loaded.product_data
               /\ summary_data' = loaded.summary_data
               /\ data_load_error' = loaded.data_load_error
       ELSE UNCHANGED <<current_date, product_data, summary_data, data_load_error>>
    /\ other_pending' = other_pending \ {"render_cards"}
    /\ UNCHANGED <<exVars, runVars, fnVars, writes, invocations, other_selected,
                   dark_mode, selected_date, chosen_by, cards, error_container,
                   date_display, pending, callback_error, user_date>>

\* update_date_display for the second session
OtherUpdateDateDisplay ==
    /\ "update_date_display" \in other_pending
    /\ current_date' =
          IF other_selected # "" /\ other_selected # "none"
          THEN other_selected
          ELSE current_date
    /\ other_pending' = other_pending \ {"update_date_display"}
    /\ UNCHANGED <<exVars, runVars, fnVars, writes, invocations, other_selected,
                   product_data, summary_data, data_load_error,
                   dark_mode, selected_date, chosen_by, cards, error_container,
                   date_display, pending, callback_error, user_date>>

NextTwoSessions ==
    \/ NextDashboard
    \/ OtherSelectDate
    \/ OtherRenderCards
    \/ OtherUpdateDateDisplay

SpecTwoSessions == InitTwoSessions /\ [][NextTwoSessions]_vars

(***************************************************************************)
(* Claims about the orchestrator (checked under Spec)                      *)
(***************************************************************************)
\* the current run has run that stage and it returned success
Succeeded(name) ==
    \E i \in 1..Len(trace) : trace[i].stage = name /\ trace[i].ok

\* C1: a stage starts only after every earlier stage has succeeded.
\* Categorization runs, or is about to run, only after scraping returned
\* success; the publishing steps only after categorization returned success;
\* a failed scraping or categorization is the last stage of its run, which
\* ends there with exit status 1.
C1_StagesInOrder ==
    /\ pc = "categorizing" => Succeeded("scraping")
    /\ pc \in {"configure_git", "push_to_github"} => Succeeded("categorization")
    /\ \A i \in 1..Len(trace) :
          /\ trace[i].stage = "categorization" =>
                \E j \in 1..(i - 1) : trace[j].stage = "scraping" /\ trace[j].ok
          /\ trace[i].stage \in {"configure_git", "push_to_github"} =>
                \E j \in 1..(i - 1) :
                    trace[j].stage = "categorization" /\ trace[j].ok
          /\ (trace[i].stage \in {"scraping", "categorization"} /\ ~trace[i].ok) =>
                /\ i = Len(trace)
                /\ pc = "failed"
                /\ exitCode = "1"

\* C1 witness: scraping failed and the run ended there, with no later stage
C1_Witness ==
    /\ pc = "failed"
    /\ exitCode = "1"
    /\ Len(trace) = 1
    /\ trace[1].stage = "scraping"
    /\ ~trace[1].ok

\* C2: in every run where fetching and snapshotting succeed, the analysis
\* reads the snapshot written by that same run: the analysis file the run
\* wrote has total_tweets_analyzed equal to the number of posts it fetched,
\* whatever the relation of the local date to the UTC date.
C2_AnalysisReadsOwnSnapshot ==
    \A i \in 1..Len(trace) :
        (trace[i].stage = "categorization" /\ trace[i].ok) =>
            analysis[trace[i].wrote].summary.total_tweets_analyzed = Len(fetched)

\* the provider outcomes of a run that are an LLM or parsing problem
LlmProblems == {ProviderRaises, AnswersNothing, AnswersProse, AnswersMalformedEntry}

\* C3: an LLM or parsing problem is not fatal for the run. When the provider
\* was called and raised, answered nothing, answered prose or answered with a
\* malformed entry, run_categorization returned success, the analysis file
\* was written with zero insights and zero token usage, and the run went on
\* to publishing.
C3_ExtractionDegrades ==
    \A i \in 1..Len(trace) :
        (trace[i].stage = "categorization" /\ llmCalls = 1
         /\ llmOutcome \in LlmProblems) =>
            /\ trace[i].ok
            /\ pc \in {"configure_git", "push_to_github", "done", "crashed"}
            /\ trace[i].wrote \in DOMAIN analysis
            /\ analysis[trace[i].wrote].product_requests = <<>>
            /\ analysis[trace[i].wrote].summary.product_requests_found = 0
            /\ analysis[trace[i].wrote].summary.token_usage.total_tokens = 0

\* C3 witness: the provider answered with a malformed entry behind a
\* well-formed one, and the run ended in success
C3_Witness ==
    /\ pc = "done"
    /\ llmCalls = 1
    /\ llmOutcome = AnswersMalformedEntry
    /\ Succeeded("categorization")
    /\ Len(fetched) = 3

\* C4: a failure of the publishing stage never changes the outcome of the
\* run. Once categorization has succeeded, the run ends in success, with
\* exit status 0.
C4_PublishingNeverFatal ==
    (Succeeded("categorization") /\ Terminated) => (pc = "done" /\ exitCode = "0")

\* C12: a run started without one of the required credentials (APIFY_TOKEN,
\* GEMINI_API_KEY, GITHUB_TOKEN) ends with a fatal error before fetching
\* starts: it is at the environment check or has failed there with exit
\* status 1, no stage has run, no provider was called, no file was written.
C12_MissingCredentialFatal ==
    (runs > 0 /\ ~(Credentials \subseteq env)) =>
        /\ pc \in {"validate", "failed"}
        /\ pc = "failed" => exitCode = "1"
        /\ trace = <<>>
        /\ fetched = <<>>
        /\ llmCalls = 0
        /\ scraped = EmptyObject
        /\ analysis = EmptyObject

\* the artifact that a completed stage of the run wrote is in its file
ArtifactKept(stage) ==
    IF stage.stage = "scraping"
    THEN stage.wrote \in DOMAIN scraped /\ scraped[stage.wrote] = fetched
    ELSE /\ stage.wrote \in DOMAIN analysis
         /\ \E d \in DOMAIN scraped :
               analysis[stage.wrote] = OutputData(AnalyzeTweets(scraped[d], llmOutcome))

\* C21: nothing is rolled back: in a run that has failed, the file written by
\* every stage of that run that completed is still there with the content the
\* stage stored; after a failed categorization the snapshot of the day holds
\* the fetched posts
C21_NoRollback ==
    pc \in {"failed", "crashed"} =>
        \A i \in 1..Len(trace) :
            (trace[i].ok /\ trace[i].wrote # NoDate) => ArtifactKept(trace[i])

\* a run whose fetch stored three posts and whose categorization then failed
C21_Witness ==
    /\ pc = "failed"
    /\ Len(trace) = 2
    /\ trace[1] = Stage("scraping", TRUE, LocalDate)
    /\ ~trace[2].ok
    /\ Len(fetched) = 3
    /\ scraped[LocalDate] = fetched

\* how far into main a position is
StageRank(position) ==
    CASE position = "idle" -> 0
      [] position = "validate" -> 1
      [] position = "scraping" -> 2
      [] position = "snapshotting" -> 3
      [] position = "categorizing" -> 4
      [] position = "configure_git" -> 5
      [] position = "push_to_github" -> 6
      [] OTHER -> 7

\* C22: a run that has started ends, in Done (exit 0) or in Failed (exit 1),
\* and on its way every step moves it forward through fetching, snapshotting,
\* analyzing and publishing: no stage is entered twice
C22_RunTerminatesInOrder ==
    /\ [][pc' # pc =>
            \/ StageRank(pc') > StageRank(pc)
            \/ Terminated /\ pc' = "validate"]_vars
    /\ [](pc = "done" => exitCode = "0")
    /\ [](pc \in {"failed", "crashed"} => exitCode = "1")
    /\ (pc = "validate") ~> (pc \in {"done", "failed", "crashed"})

\* a run that went through all four stages and ended in Done
C22_Witness ==
    /\ pc = "done"
    /\ Len(trace) = 4
    /\ runs = 2

\* the current run fetched zero posts and its snapshot was written
EmptyFetch ==
    /\ Len(trace) >= 1
    /\ trace[1] = Stage("scraping", TRUE, trace[1].wrote)
    /\ fetched = <<>>

\* the analysis file the current run wrote says: no tweet, no insight, no token
EmptyAnalysis ==
    /\ Len(trace) >= 2
    /\ trace[2].ok
    /\ trace[2].wrote \in DOMAIN analysis
    /\ analysis[trace[2].wrote]
          = [summary |-> [total_tweets_analyzed |-> 0, product_requests_found |-> 0,
                          token_usage |-> ZeroUsage],
             product_requests |-> <<>>]

\* C28: a fetch of zero posts is not a failure. A run whose fetch returned
\* no post and that has ended wrote the empty snapshot, analysed without
\* calling the provider, wrote an analysis file with zero tweets, zero
\* insights and zero token usage, and ended in Done.
C28_EmptyFetchSucceeds ==
    (EmptyFetch /\ pc \in {"done", "failed", "crashed"}) =>
        /\ trace[1].wrote \in DOMAIN scraped
        /\ scraped[trace[1].wrote] = <<>>
        /\ llmCalls = 0
        /\ EmptyAnalysis
        /\ pc = "done"

(***************************************************************************)
(* Claims about two invocations (checked under SpecTwoRuns)                *)
(***************************************************************************)
\* both invocations have ended and neither started while the other ran
OneAtATime ==
    \A p \in Invocations :
        invocations[p].pc \in {"done", "failed"} /\ ~invocations[p].overlap

\* the invocation analysed the posts it fetched itself
AnalysedOwnSnapshot(p) ==
    /\ invocations[p].loaded = invocations[p].fetched
    /\ invocations[p].total = Len(invocations[p].fetched)

\* two interleaved invocations of one day, local and UTC date equal: both
\* wrote the one snapshot file and the one analysis file, and an invocation
\* analysed what the other one fetched
InterleavedRace ==
    /\ tz = 0
    /\ \A p \in Invocations : invocations[p].pc = "done" /\ invocations[p].overlap
    /\ DOMAIN scraped = {LocalDate}
    /\ DOMAIN analysis = {LocalDate}
    /\ \E p \in Invocations :
          /\ invocations[p].loaded = invocations[OtherInvocation(p)].fetched
          /\ invocations[p].total # Len(invocations[p].fetched)

\* one invocation at a time, local and UTC date equal: own snapshot analysed
OneAtATimeSameClock ==
    (tz = 0 /\ OneAtATime) =>
        \A p \in Invocations : invocations[p].pc = "done" => AnalysedOwnSnapshot(p)

\* C23: with one invocation at a time on the same (UTC) day, an invocation
\* that completes has analysed its own snapshot, so the total of its analysis
\* file is the number of posts it fetched
C23_OneAtATimeOwnSnapshot ==
    (OneAtATime /\ invocations[1].utc_day = invocations[2].utc_day) =>
        \A p \in Invocations : invocations[p].pc = "done" => AnalysedOwnSnapshot(p)

(***************************************************************************)
(* Claims about the insight extractor (checked under SpecExtractor)        *)
(***************************************************************************)
ExTweets == LoadTweetData(exRaw)

\* the extractor was given posts and returned
ExCalled == exEntry # "none" /\ exRaw # <<>>

\* the cleaned response is a JSON object: it starts with {, ends with } and parses
ExAccepted ==
    /\ ~exOutcome.raises
    /\ LET t == CleanResponse(exOutcome.text)
       IN  /\ t # <<>>
           /\ t[1] = "{"
           /\ t[Len(t)] = "}"
           /\ JsonLoads(t).ok

\* the entries of the accepted response's product_requests array
ExCandidates ==
    LET data == JsonLoads(CleanResponse(exOutcome.text)).value
    IN  IF "product_requests" \in DOMAIN data
        THEN IF data.product_requests.type = "array"
             THEN data.product_requests.items
             ELSE <<>>
        ELSE <<>>

ExIsArray ==
    LET data == JsonLoads(CleanResponse(exOutcome.text)).value
    IN  "product_requests" \in DOMAIN data => data.product_requests.type = "array"

ListedIds(cand) == IF "tweet_ids" \in DOMAIN cand.obj THEN cand.obj.tweet_ids ELSE <<>>

\* every entry is an insight candidate: a mapping whose tweet_ids are strings
ExWellFormed ==
    /\ ExIsArray
    /\ \A k \in 1..Len(ExCandidates) :
          /\ ExCandidates[k].type = "object"
          /\ \A j \in 1..Len(ListedIds(ExCandidates[k])) :
                ListedIds(ExCandidates[k])[j] # Unhashable

BatchIds == {ExTweets[k].id : k \in 1..Len(ExTweets)}

\* the listed ids that are ids of the batch, in the order listed
ResolvedIds(cand) == SelectSeq(ListedIds(cand), LAMBDA i : i \in BatchIds)

\* C5: reconciliation. For every batch and every insight candidate of an
\* accepted response, the insight's posts are posts of the batch, one for each
\* listed id that is an id of the batch, in the order the candidate listed
\* them; ids without a match are skipped and nothing is raised.
C5_Reconciliation ==
    (ExCalled /\ ExAccepted /\ ExWellFormed) =>
        /\ ~exResult.raised
        /\ \A k \in 1..Len(ExCandidates) :
              /\ k <= Len(exResult.product_requests)
              /\ LET posts == exResult.product_requests[k].tweets
                     want == ResolvedIds(ExCandidates[k])
                 IN  /\ Len(posts) = Len(want)
                     /\ \A j \in 1..Len(want) :
                           /\ posts[j].id = want[j]
                           /\ \E m \in 1..Len(ExTweets) : ExTweets[m] = posts[j]

\* C5 witness: ids a, b, c and tweet_ids [a, x, c] gave [post_a, post_c]
C5_Witness ==
    /\ exEntry = "analyze_tweets_with_gemini"
    /\ exRaw = <<RawA, RawB, RawC>>
    /\ CleanResponse(exOutcome.text) = <<"{", "reqs:[axc]", "}">>
    /\ Len(exResult.product_requests) = 1
    /\ exResult.product_requests[1].tweets = <<TweetDataOf(RawA), TweetDataOf(RawC)>>

C7_ResponseRejected ==
    (ExCalled /\ ~exOutcome.raises /\ ~ExAccepted) =>
        /\ ~exResult.raised
        /\ exResult.product_requests = <<>>
        /\ exResult.token_usage
              = [input_tokens |-> 0, output_tokens |-> 0, total_tokens |-> 0]

\* C7 witness: the response "not json", with usage metadata, was rejected
C7_Witness ==
    /\ ExCalled
    /\ exOutcome.text = NotJsonText
    /\ exOutcome.usage_metadata.present
    /\ exResult.calls = 1
    /\ exResult.product_requests = <<>>

\* a fenced JSON object: optional whitespace, ``` or ```json, the object,
\* ```, optional whitespace
FenceInner(text) ==
    LET t == Strip(text)
        u == SubSeq(t, 4, Len(t) - 3)
    IN  Strip(IF Len(u) >= 4 /\ SubSeq(u, 1, 4) = <<"j", "s", "o", "n">>
              THEN SubSeq(u, 5, Len(u))
              ELSE u)

IsFencedObject(text) ==
    LET t == Strip(text)
    IN  /\ Len(t) >= 8
        /\ SubSeq(t, 1, 3) = <<BQ, BQ, BQ>>
        /\ SubSeq(t, Len(t) - 2, Len(t)) = <<BQ, BQ, BQ>>
        /\ LET b == FenceInner(text)
           IN  /\ Len(b) >= 2
               /\ b[1] = "{"
               /\ b[Len(b)] = "}"
               /\ JsonLoads(b).ok

\* C8: response sanitization. A valid JSON object wrapped in a code fence
\* (``` or ```json before, ``` after), with any whitespace around the fence,
\* is accepted, and the insights are those the bare object gives.
C8_FenceStripped ==
    (ExCalled /\ ~exOutcome.raises /\ IsFencedObject(exOutcome.text)) =>
        /\ ExAccepted
        /\ CleanResponse(exOutcome.text) = FenceInner(exOutcome.text)
        /\ exResult.product_requests
              = AnalyzeTweetsWithGemini(
                    ExTweets,
                    [exOutcome EXCEPT !.text = FenceInner(exOutcome.text)]
                ).product_requests

\* C8 witness: ```json, newline, an object with one candidate, newline, ```
C8_Witness ==
    /\ ExCalled
    /\ exRaw = <<RawA, RawB, RawC>>
    /\ exOutcome.text
          = FenceJson \o <<"nl", "{", "reqs:[axc]", "}", "nl">> \o Fence
    /\ Len(exResult.product_requests) = 1
    /\ Len(exResult.product_requests[1].tweets) = 2

C10_EmptyInput ==
    (exEntry # "none" /\ exRaw = <<>>) =>
        /\ exResult.calls = 0
        /\ exResult.product_requests = <<>>
        /\ exResult.token_usage
              = [input_tokens |-> 0, output_tokens |-> 0, total_tokens |-> 0]
        /\ exEntry = "analyze_tweets" => exResult.total_tweets_analyzed = 0

\* C10 witness: analyze_tweets_with_gemini on the empty list, with a provider
\* that would have answered with an insight
C10_Witness ==
    /\ exEntry = "analyze_tweets_with_gemini"
    /\ exRaw = <<>>
    /\ exOutcome.text = <<"{", "reqs:[axc]", "}">>
    /\ exResult.calls = 0

\* C11: the provider is called at most once per analysis. Whatever the call
\* gave, there was no second call; and when the one call raised or gave a
\* response that is empty once cleaned, the result is zero insights with zero
\* token usage, returned and not raised.
C11_NoRetry ==
    exEntry # "none" =>
        /\ exResult.calls <= 1
        /\ (exResult.calls = 1
            /\ (exOutcome.raises \/ CleanResponse(exOutcome.text) = <<>>)) =>
              /\ ~exResult.raised
              /\ exResult.product_requests = <<>>
              /\ exResult.token_usage
                    = [input_tokens |-> 0, output_tokens |-> 0, total_tokens |-> 0]

\* C11 witness: the provider was called for three posts and raised
C11_Witness ==
    /\ exEntry = "analyze_tweets"
    /\ Len(exRaw) = 3
    /\ exOutcome.raises
    /\ exResult.calls = 1
    /\ exResult.product_requests = <<>>

\* C26: the extractor is all or nothing. For an accepted response it returns
\* either an insight for every entry or no insight at all, never a part of
\* them; one entry that is not a mapping, or that lists an id that cannot be
\* a lookup key, discards the insights of the well-formed entries too, and
\* the token usage reported is then zero. Nothing is raised.
C26_AllOrNothing ==
    /\ (ExCalled /\ ~ExAccepted) => exResult.product_requests = <<>>
    /\ (ExCalled /\ ExAccepted) =>
        /\ ~exResult.raised
        /\ Len(exResult.product_requests) \in {0, Len(ExCandidates)}
        /\ ExWellFormed => Len(exResult.product_requests) = Len(ExCandidates)
        /\ ~ExWellFormed =>
              /\ exResult.product_requests = <<>>
              /\ exResult.token_usage
                    = [input_tokens |-> 0, output_tokens |-> 0, total_tokens |-> 0]

\* C26 witness: a well-formed entry followed by the number 7, with usage
\* metadata, gave no insight and zero usage
C26_Witness ==
    /\ ExCalled
    /\ exRaw = <<RawA, RawB, RawC>>
    /\ CleanResponse(exOutcome.text) = <<"{", "reqs:[axc,7]", "}">>
    /\ exOutcome.usage_metadata.present
    /\ exResult.calls = 1
    /\ exResult.product_requests = <<>>
    /\ exResult.token_usage.total_tokens = 0

\* the fields of a request and of a tweet of the analysis file
RequestFields ==
    {"category", "description", "pain_point", "target_audience", "urgency_level",
     "tweets"}

TweetFields == {"id", "text", "user_handle", "created_at", "engagement_score", "url"}

\* what the dashboard loads from the file the writer wrote for the result
ExLoaded ==
    LoadDataWithErrorHandling(SavedAnalysis(exResult, "010125"), "010125", NoError,
                              "010125")

\* C27: the file the analysis writer writes is one the dashboard accepts.
\* For every result of analyze_tweets, the file save_results writes loads
\* without error, its summary.product_requests_found is the length of its
\* product_requests, every request has the six request fields and every
\* tweet the six tweet fields, and building the cards raises nothing.
C27_WrittenFileLoads ==
    (exEntry = "analyze_tweets" /\ ~exResult.raised) =>
        /\ ExLoaded.raised = "None"
        /\ ExLoaded.data_load_error = NoError
        /\ ExLoaded.summary_data.product_requests_found = Len(ExLoaded.product_data)
        /\ Len(ExLoaded.product_data) = Len(exResult.product_requests)
        /\ \A i \in 1..Len(ExLoaded.product_data) :
              /\ ExLoaded.product_data[i].type = "object"
              /\ DOMAIN ExLoaded.product_data[i].obj = RequestFields
              /\ ExLoaded.product_data[i].obj.tweets.type = "array"
              /\ \A j \in 1..Len(ExLoaded.product_data[i].obj.tweets.items) :
                    /\ ExLoaded.product_data[i].obj.tweets.items[j].type = "object"
                    /\ DOMAIN ExLoaded.product_data[i].obj.tweets.items[j].obj
                          = TweetFields
        /\ CardsRaise(ExLoaded.product_data, ExLoaded.data_load_error) = "None"

\* C27 witness: three posts and three insights, one of them without posts and
\* without category in the response
C27_Witness ==
    /\ exEntry = "analyze_tweets"
    /\ exRaw = <<RawA, RawB, RawC>>
    /\ ~exResult.raised
    /\ Len(exResult.product_requests) = 3
    /\ exResult.product_requests[1].category = "Unknown"
    /\ exResult.product_requests[3].tweets = <<>>
    /\ Len(ExLoaded.product_data) = 3

(***************************************************************************)
(* Claims about the normalizer (checked under SpecNormalizer)              *)
(***************************************************************************)
\* the value of a field of a raw record, or the default when it is missing
FieldOr(tweet, key, default) == IF key \in DOMAIN tweet THEN tweet[key] ELSE default

\* C13: the normalizer is total. For every list of raw records, whatever
\* fields are missing, there is one normalized post per record, in order, with
\* all six fields: id, text, author, timestamp and url are the record's, or
\* the empty string when missing; the score is zero when all counters are
\* missing; the empty list gives the empty list.
C13_NormalizerTotal ==
    fnName = "load_tweet_data" =>
        /\ Len(fnResult) = Len(fnInput)
        /\ fnInput = <<>> => fnResult = <<>>
        /\ \A i \in 1..Len(fnInput) :
              /\ DOMAIN fnResult[i]
                    = {"id", "text", "user_handle", "created_at",
                       "engagement_score", "url"}
              /\ fnResult[i].id = FieldOr(fnInput[i], "id", "")
              /\ fnResult[i].text = FieldOr(fnInput[i], "tweet_text", "")
              /\ fnResult[i].user_handle = FieldOr(fnInput[i], "user_handle", "")
              /\ fnResult[i].created_at = FieldOr(fnInput[i], "tweet_created_at", "")
              /\ fnResult[i].url = FieldOr(fnInput[i], "tweet_url", "")
              /\ DOMAIN fnInput[i] \cap CounterKeys = {} =>
                    fnResult[i].engagement_score = 0

\* C13 witness: three records, the second a record with no field at all
C13_Witness ==
    /\ fnName = "load_tweet_data"
    /\ fnInput = <<RawA, EmptyObject, RawC>>
    /\ Len(fnResult) = 3
    /\ fnResult[2].id = ""
    /\ fnResult[2].text = ""
    /\ fnResult[2].engagement_score = 0

\* C14: the engagement score of every normalized post is likes + 2 * retweets
\* + 3 * replies of its raw record, a missing counter counting 0.
C14_EngagementScore ==
    fnName = "load_tweet_data" =>
        \A i \in 1..Len(fnInput) :
            fnResult[i].engagement_score
                = FieldOr(fnInput[i], "tweet_favorite_count", 0)
                  + 2 * FieldOr(fnInput[i], "tweet_retweet_count", 0)
                  + 3 * FieldOr(fnInput[i], "tweet_reply_count", 0)

\* C14 witness: likes 5, retweets 2, replies 1 give 12; a record without
\* counters gives 0 and one with likes 1 only gives 1
C14_Witness ==
    /\ fnName = "load_tweet_data"
    /\ fnInput = <<RawA, RawB, RawC>>
    /\ RawA.tweet_favorite_count = 5
    /\ RawA.tweet_retweet_count = 2
    /\ RawA.tweet_reply_count = 1
    /\ fnResult[1].engagement_score = 12
    /\ fnResult[2].engagement_score = 0
    /\ fnResult[3].engagement_score = 1

\* C15: within every batch the normalizer returns, the ids of the posts are
\* pairwise distinct.
C15_IdsDistinct ==
    fnName = "load_tweet_data" =>
        \A i, j \in 1..Len(fnResult) :
            fnResult[i].id = fnResult[j].id => i = j

(***************************************************************************)
(* Claims about the writers (checked under SpecWriters)                    *)
(***************************************************************************)
\* the positions in the log of the writes of that writer on that date
WritesOn(writer, date) ==
    {i \in 1..Len(writes) : writes[i].writer = writer /\ writes[i].date = date}

\* the greatest element of a non-empty set of positions
Latest(positions) == CHOOSE i \in positions : \A j \in positions : j <= i

\* the files of that writer are those of the dates written on, each holding
\* the content of the latest write on its date
HoldsLatest(files, writer) ==
    /\ DOMAIN files
          = {writes[i].date : i \in {j \in 1..Len(writes) : writes[j].writer = writer}}
    /\ \A date \in DOMAIN files :
          /\ WritesOn(writer, date) # {}
          /\ files[date] = writes[Latest(WritesOn(writer, date))].content

C17_SequenceOrRaise ==
    fnName = "run_scraper" =>
        /\ ~fnResult.raised =>
              /\ fnResult.value # PyNone
              /\ fnResult.value.type = "list"
              /\ fnResult.value.items = fnInput.items
        /\ fnInput.call \in {"None", "empty"} => fnResult.raised

\* C17 witness: a finished run with an empty dataset returned the empty
\* sequence
C17_Witness ==
    /\ fnName = "run_scraper"
    /\ fnInput.call = "run"
    /\ ~fnInput.iterate_raises
    /\ fnInput.items = <<>>
    /\ ~fnResult.raised
    /\ fnResult.value = PyList(<<>>)

\* the configuration run_scraping_job works on: the one given, else the file
JobConfig == IF fnInput.config = PyNone THEN fnInput.config_file ELSE fnInput.config

\* C18: on every invocation of run_scraping_job that fetches, the window
\* handed to the fetch is since = today - 2 days and until = today, whatever
\* since and until the configuration given or loaded holds; since is before
\* until; the other settings are the configuration's, and the configuration
\* itself is as it was.
C18_WindowRecomputed ==
    (fnName = "run_scraping_job" /\ fnResult.fetched) =>
        /\ fnResult.run_input.since = FormatDate(fnInput.today - 2)
        /\ fnResult.run_input.until = FormatDate(fnInput.today)
        /\ DateBefore(fnResult.run_input.since, fnResult.run_input.until)
        /\ fnResult.run_input.maxItems = Get(JobConfig, "maxItems", "1000")
        /\ fnResult.config = JobConfig

\* C18 witness: on 2025-03-01 a configuration whose since is after its
\* until was given; the fetch had the window 2025-02-27 to 2025-03-01
C18_Witness ==
    /\ fnName = "run_scraping_job"
    /\ fnInput.config = ConfigReversedWindow
    /\ fnResult.fetched
    /\ fnResult.run_input.since = <<2025, 2, 27>>
    /\ fnResult.run_input.until = <<2025, 3, 1>>
    /\ fnResult.config.since = <<2026, 1, 5>>

(***************************************************************************)
(* Claims about the dashboard's loading (checked under SpecDashboardLoad)  *)
(***************************************************************************)
\* the date whose file the call loads
LoadedDate ==
    IF fnInput.date_str = "None" THEN fnInput.current_date ELSE fnInput.date_str

\* the call returned ([], {}, message)
ReturnsError(message) ==
    /\ fnResult.raised = "None"
    /\ fnResult.product_data = <<>>
    /\ fnResult.summary_data = EmptyObject
    /\ fnResult.error_msg = message

\* the file loaded is a JSON text with a value of that set
LoadedFileIn(values) ==
    /\ LoadedDate \in DOMAIN fnInput.files
    /\ fnInput.files[LoadedDate].state = "json"
    /\ fnInput.files[LoadedDate].data \in values

ErrorMessages ==
    {"Data file not found for date", "Data file contains invalid JSON format",
     "Data file is missing required information",
     "Cannot read the data file due to permission restrictions",
     "Data file has invalid format"}

\* C19: load_data_with_error_handling never raises, and returns ([], {},
\* message) with a message of its own kind for each of: file absent, invalid
\* JSON, missing product_requests or summary key, wrong type (top level not
\* an object, product_requests not a list, summary not an object), permission
\* denied. The five messages differ, and a file holding only
\* {"product_requests": []} gives the missing-information message.
C19_LoadErrorMapping ==
    fnName = "load_data_with_error_handling" =>
        /\ fnResult.raised = "None"
        /\ Cardinality(ErrorMessages) = 5
        /\ LoadedDate \notin DOMAIN fnInput.files =>
              ReturnsError("Data file not found for date")
        /\ (LoadedDate \in DOMAIN fnInput.files
            /\ fnInput.files[LoadedDate] = FileNotJson) =>
              ReturnsError("Data file contains invalid JSON format")
        /\ LoadedFileIn(MissingKeyData) =>
              ReturnsError("Data file is missing required information")
        /\ LoadedFileIn(WrongTypeData) =>
              ReturnsError("Data file has invalid format")
        /\ (LoadedDate \in DOMAIN fnInput.files
            /\ fnInput.files[LoadedDate] = FileDenied) =>
              ReturnsError("Cannot read the data file due to permission restrictions")
        /\ LoadedFileIn(LoadableData) => fnResult.error_msg = NoError

\* C19 witness: the file of the date asked for holds {"product_requests": []}
\* and the call returned the missing-information message
C19_Witness ==
    /\ fnName = "load_data_with_error_handling"
    /\ fnInput.date_str = "020125"
    /\ fnInput.current_date = "010125"
    /\ "020125" \in DOMAIN fnInput.files
    /\ fnInput.files["020125"] = FileOf(DataOnlyRequests)
    /\ ReturnsError("Data file is missing required information")

(***************************************************************************)
(* Claims about the dashboard's callbacks (checked under SpecDashboard)    *)
(***************************************************************************)
\* what loading the analysis file of that date gives
FileLoad(date) == LoadDataWithErrorHandling(analysis, date, NoError, date)

\* C20: the dashboard reads the file of the date asked for. Once the user
\* has selected a date and render_cards and update_date_display, triggered
\* by that change, have both run, in whichever order, the cards shown are
\* those built from the analysis file of the selected date.
C20_CardsOfSelectedDate ==
    (chosen_by = "user" /\ pending = {}) =>
        cards = CardComponents(FileLoad(selected_date).product_data,
                               FileLoad(selected_date).data_load_error)

\* C24: a failed load for a newly selected date is visible. Once the user
\* has selected a date whose file fails to load and the callbacks triggered
\* by the selection have run, error-container holds the alert with the
\* message of that failure.
C24_ErrorShownAfterSelection ==
    (chosen_by = "user" /\ pending = {}
        /\ FileLoad(selected_date).data_load_error # NoError) =>
        error_container = ErrorComponents(FileLoad(selected_date).data_load_error)

\* C25: whatever the analysis file holds, loading and rendering it ends in
\* cards or in a visible error state: no exception leaves a callback that
\* builds the cards.
C25_RenderingNeverRaises == callback_error = "None"

\* a step in which reload_data is called: render_cards for a date other than
\* the current one, or the retry button
ReloadStep ==
    \/ HandleRetryLoad
    \/ /\ RenderCards
       /\ selected_date \notin {"", "none"}
       /\ selected_date # current_date

\* the globals are what loading the file of that date gives (the dashboard
\* writes no file: the directory is the same before and after a step)
GlobalsOf(date, error, products, summary) ==
    /\ error = FileLoad(date).data_load_error
    /\ products = FileLoad(date).product_data
    /\ summary = FileLoad(date).summary_data
    /\ (error = NoError) <=> (LoadAnalysisData(analysis, date).raised = "None")

\* C29: the globals are consistent after the module is loaded and after
\* every call of reload_data: data_load_error is None exactly when the load
\* of the file of current_date succeeded, and the data are those of that
\* file; and at all times a data_load_error that is set goes with an empty
\* product_data and an empty summary_data.
C29_GlobalsConsistent ==
    /\ GlobalsOf(current_date, data_load_error, product_data, summary_data)
    /\ [][ReloadStep =>
            GlobalsOf(current_date', data_load_error', product_data',
                      summary_data')]_vars
    /\ [](data_load_error # NoError =>
              product_data = <<>> /\ summary_data = EmptyObject)

\* render_cards has reloaded for the date the user selected, whose file
\* fails to load, after a date whose file had loaded
C29_Witness ==
    /\ chosen_by = "user"
    /\ pending = {"update_date_display"}
    /\ current_date = selected_date
    /\ data_load_error # NoError
    /\ product_data = <<>>
    /\ cards # <<>>
    /\ error_container = <<>>

(***************************************************************************)
(* Claims about two sessions (checked under SpecTwoSessions)               *)
(***************************************************************************)
\* C30: a session shows what it selected. Once the user of a session has
\* picked a date and the callbacks of that session have run, the date
\* selector of the session still holds that date and the date display is
\* the one of that date, whatever the other session selected and however the
\* callbacks of the two sessions interleaved.
C30_SessionShowsOwnDate ==
    (user_date # "" /\ pending = {}) =>
        /\ selected_date = user_date
        /\ date_display = DisplayOf(user_date)

====
